---- MODULE Spec2Model ----
(***************************************************************************)
(* Model of CDBTo3DTiles/src/TileFormatIO.cpp: the i3dm / b3dm / cmpt tile *)
(* writers, the batch-table packers and the tileset JSON writers.          *)
(*                                                                         *)
(* Bytes are numbers 0..255, text is a sequence of ASCII codes, an output  *)
(* stream is a byte sequence plus a put position.  C++ indices are 0-based *)
(* and TLA+ sequences 1-based: element idx of a vector v is v[idx + 1].    *)
(***************************************************************************)
EXTENDS Integers, Sequences, FiniteSets, TLC

VARIABLES fs, pos, stack, ncalls, last, phase, tilesetOut, io, parsed, meta

vars == <<fs, pos, stack, ncalls, last, phase, tilesetOut, io, parsed, meta>>

(***************************************************************************)
(* Bounds of the model.                                                    *)
(***************************************************************************)
MaxInstances == 2
MaxIntCols == 2
MaxDblCols == 2
MaxStrCols == 1
MaxSel == 2
MaxUriLen == 4
MaxGlbLen == 9
MaxTiles == 2
MaxDepth == 2
MaxCalls == 3
MaxRaw == 1
MaxTreeDepth == 2
MaxNodes == 3
MaxSlots == 2
MaxCoord == 3
MaxRegions == 2

(***************************************************************************)
(* Sizes fixed by the tile formats (TileFormatIO.h) and by glm.            *)
(***************************************************************************)
I3dmHeaderSize == 32
B3dmHeaderSize == 28
CmptHeaderSize == 16
MAX_GEOMETRIC_ERROR == 300000
Vec3Size == 12
Int32Size == 4
DoubleSize == 8

roundUp(value, multiple) == ((value + multiple - 1) \div multiple) * multiple

Max2(a, b) == IF a >= b THEN a ELSE b
Min2(a, b) == IF a <= b THEN a ELSE b

Zeros(n) == [i \in 1..n |-> 0]
Spaces(n) == [i \in 1..n |-> 32]

(***************************************************************************)
(* Little-endian images of the integer types the code memcpy's or writes.  *)
(***************************************************************************)
LE32(v) ==
    << v % 256, (v \div 256) % 256, (v \div 65536) % 256, (v \div 16777216) % 256 >>

\* the four bytes of an int32_t (two's complement)
Int32Bytes(v) ==
    IF v >= 0 THEN LE32(v)
    ELSE LET u == (v + 2147483647) + 1
         IN  [LE32(u) EXCEPT ![4] = @ + 128]

\* the uint32_t stored at byte offset off of buf (values below 2^31)
ReadU32(buf, off) ==
    buf[off + 1] + 256 * buf[off + 2] + 65536 * buf[off + 3] + 16777216 * buf[off + 4]

\* the int32_t stored at byte offset off of buf
ReadInt32(buf, off) ==
    LET low == buf[off + 1] + 256 * buf[off + 2] + 65536 * buf[off + 3]
               + 16777216 * (buf[off + 4] % 128)
    IN  IF buf[off + 4] >= 128 THEN (low - 2147483647) - 1 ELSE low

\* the eight bytes stored at byte offset off of buf (a double's image)
ReadDouble(buf, off) == [i \in 1..DoubleSize |-> buf[off + i]]

\* std::memcpy(buf.data() + off, bytes, Len(bytes))
MemCpy(buf, off, bytes) ==
    [i \in 1..Len(buf) |->
        IF i > off /\ i <= off + Len(bytes) THEN bytes[i - off] ELSE buf[i]]

RECURSIVE Concat(_)
Concat(ss) == IF ss = <<>> THEN <<>> ELSE Head(ss) \o Concat(Tail(ss))

(***************************************************************************)
(* nlohmann::json values and dump(): compact text, object keys in          *)
(* std::map (byte-wise lexicographic) order.                               *)
(***************************************************************************)
JNum(n) == [v |-> n, t |-> "num"]
JRaw(s) == [v |-> s, t |-> "raw"]
JStr(s) == [v |-> s, t |-> "str"]
JArr(a) == [v |-> a, t |-> "arr"]
JObj(o) == [v |-> o, t |-> "obj"]
JNull == [v |-> 0, t |-> "null"]
EmptyObj == JObj(<<>>)

RECURSIVE StrLess(_, _)
StrLess(a, b) ==
    IF a = <<>> THEN b # <<>>
    ELSE IF b = <<>> THEN FALSE
    ELSE IF Head(a) # Head(b) THEN Head(a) < Head(b)
    ELSE StrLess(Tail(a), Tail(b))

\* iteration order of a std::map<std::string, _> with key set S
RECURSIVE SortKeys(_)
SortKeys(S) ==
    IF S = {} THEN <<>>
    ELSE LET m == CHOOSE x \in S : \A y \in S \ {x} : StrLess(x, y)
         IN  <<m>> \o SortKeys(S \ {m})

\* std::to_string / dump() of an unsigned integer
RECURSIVE ToStr(_)
ToStr(n) == IF n < 10 THEN <<48 + n>> ELSE ToStr(n \div 10) \o <<48 + (n % 10)>>

\* json[key] = value on an object (or null) json
JPut(j, key, value) ==
    JObj((key :> value) @@ (IF j.t = "obj" THEN j.v ELSE <<>>))

JHas(j, key) == j.t = "obj" /\ key \in DOMAIN j.v

\* json[key] read: null when absent
JGet(j, key) == IF JHas(j, key) THEN j.v[key] ELSE JNull

\* json[key].emplace_back(value) on an array (or null) member
JAppend(j, key, value) ==
    LET cur == JGet(j, key)
    IN  JPut(j, key, JArr((IF cur.t = "arr" THEN cur.v ELSE <<>>) \o <<value>>))

RECURSIVE Pow(_, _)
Pow(b, n) == IF n = 0 THEN 1 ELSE b * Pow(b, n - 1)

\* the decimal digits of n, zero-padded on the left to width w
RECURSIVE Digits(_, _)
Digits(n, w) == IF w = 0 THEN <<>> ELSE Digits(n \div 10, w - 1) \o <<48 + (n % 10)>>

(***************************************************************************)
(* A float or double x.m / 2^x.e, x.m odd unless x.e = 0 (exact, as long   *)
(* as the mantissa fits, which it does here).                              *)
(***************************************************************************)
Flt(n) == [m |-> n, e |-> 0]
\* x / 2.0f
Half(x) == IF x.m % 2 = 0 THEN [m |-> x.m \div 2, e |-> x.e] ELSE [m |-> x.m, e |-> x.e + 1]
JFlt(x) == [v |-> x, t |-> "flt"]

\* dump() of a non-negative floating-point number: always with a fraction part
DumpFloat(x) ==
    ToStr(x.m \div Pow(2, x.e)) \o <<46>>
    \o (IF x.e = 0 THEN <<48>> ELSE Digits((x.m % Pow(2, x.e)) * Pow(5, x.e), x.e))

RECURSIVE Dump(_)
RECURSIVE DumpItems(_)
RECURSIVE DumpMembers(_, _)
Dump(j) ==
    CASE j.t = "num" -> ToStr(j.v)
      [] j.t = "raw" -> j.v
      [] j.t = "flt" -> DumpFloat(j.v)
      [] j.t = "str" -> <<34>> \o j.v \o <<34>>
      [] j.t = "arr" -> <<91>> \o DumpItems(j.v) \o <<93>>
      [] j.t = "obj" -> <<123>> \o DumpMembers(j.v, SortKeys(DOMAIN j.v)) \o <<125>>
      [] OTHER -> <<110, 117, 108, 108>>
DumpItems(a) ==
    IF a = <<>> THEN <<>>
    ELSE Dump(Head(a)) \o (IF Len(a) > 1 THEN <<44>> ELSE <<>>) \o DumpItems(Tail(a))
DumpMembers(o, keys) ==
    IF keys = <<>> THEN <<>>
    ELSE <<34>> \o Head(keys) \o <<34, 58>> \o Dump(o[Head(keys)])
         \o (IF Len(keys) > 1 THEN <<44>> ELSE <<>>) \o DumpMembers(o, Tail(keys))

(***************************************************************************)
(* Text constants (ASCII).                                                 *)
(***************************************************************************)
K_CNAM == <<67, 78, 65, 77>>
K_INSTANCES_LENGTH == <<73, 78, 83, 84, 65, 78, 67, 69, 83, 95, 76, 69, 78, 71, 84, 72>>
K_RTC_CENTER == <<82, 84, 67, 95, 67, 69, 78, 84, 69, 82>>
K_POSITION == <<80, 79, 83, 73, 84, 73, 79, 78>>
K_SCALE_NON_UNIFORM == <<83, 67, 65, 76, 69, 95, 78, 79, 78, 95, 85, 78, 73, 70, 79, 82, 77>>
K_NORMAL_UP == <<78, 79, 82, 77, 65, 76, 95, 85, 80>>
K_NORMAL_RIGHT == <<78, 79, 82, 77, 65, 76, 95, 82, 73, 71, 72, 84>>
K_byteOffset == <<98, 121, 116, 101, 79, 102, 102, 115, 101, 116>>
K_type == <<116, 121, 112, 101>>
K_componentType == <<99, 111, 109, 112, 111, 110, 101, 110, 116, 84, 121, 112, 101>>
T_SCALAR == <<83, 67, 65, 76, 65, 82>>
T_INT == <<73, 78, 84>>
T_DOUBLE == <<68, 79, 85, 66, 76, 69>>
\* "{\"BATCH_LENGTH\":"
T_BatchLengthPrefix == <<123, 34, 66, 65, 84, 67, 72, 95, 76, 69, 78, 71, 84, 72, 34, 58>>
MagicI3dm == <<105, 51, 100, 109>>
MagicB3dm == <<98, 51, 100, 109>>
MagicCmpt == <<99, 109, 112, 116>>

(***************************************************************************)
(* Inputs: CDBInstancesAttributes / CDBModelsAttributes.  Every column has *)
(* one value per instance; the typed column maps are std::maps keyed by    *)
(* the CDB attribute code, and an attribute code has one type, so the key  *)
(* sets are disjoint and none is "CNAM".                                   *)
(***************************************************************************)
\* "RTAI", "CMIX", "FSC"
IntNames == << <<82, 84, 65, 73>>, <<67, 77, 73, 88>>, <<70, 83, 67>> >>
\* "HGT", "AO1", "BBH"
DblNames == << <<72, 71, 84>>, <<65, 79, 49>>, <<66, 66, 72>> >>
\* "MODL", "FACC"
StrNames == << <<77, 79, 68, 76>>, <<70, 65, 67, 67>> >>

IntPool ==
    << -1, 305419896, (-2147483647) - 1, 7, 2147483647, 256, -65536, 0,
       65535, -16909061, 16777216, -128 >>

IntValueOf(c, i) == IntPool[(((c - 1) * 4 + i) % 12) + 1]
\* the image of a double; the byte pattern identifies column c, instance i
DblValueOf(c, i) == << i + 1, c, 0, 0, 0, 0, 240, 63 >>
CnamOf(i) == [j \in 1..(i + 1) |-> 65 + i]
StrValueOf(c, i) == [j \in 1..(2 * i + c) |-> 97 + i]

IndexOf(names, nm) == CHOOSE c \in 1..Len(names) : names[c] = nm

MkTable(n, k, d, s) ==
    [ n     |-> n,
      CNAMs |-> [i \in 1..n |-> CnamOf(i - 1)],
      ints  |-> [nm \in {IntNames[c] : c \in 1..k} |->
                    [i \in 1..n |-> IntValueOf(IndexOf(IntNames, nm), i - 1)]],
      dbls  |-> [nm \in {DblNames[c] : c \in 1..d} |->
                    [i \in 1..n |-> DblValueOf(IndexOf(DblNames, nm), i - 1)]],
      strs  |-> [nm \in {StrNames[c] : c \in 1..s} |->
                    [i \in 1..n |-> StrValueOf(IndexOf(StrNames, nm), i - 1)]] ]

Tables ==
    { MkTable(n, k, d, s) : n \in 0..MaxInstances, k \in 0..MaxIntCols,
                            d \in 0..MaxDblCols, s \in 0..MaxStrCols }

\* the selection lists over a table of n instances
Selections(n) == UNION { [1..m -> 0..(n - 1)] : m \in 0..MaxSel }

\* RTC_CENTER as dumped: the cartesian centre of the tile's region
Centers ==
    { << <<48, 46, 48>>, <<48, 46, 48>>, <<48, 46, 48>> >>,
      << <<45, 50, 54, 57, 52, 48, 52, 52, 46, 53>>, <<54, 51, 55, 56, 49, 51, 55, 46, 48>>,
         <<48, 46, 48>> >> }

\* empty, of MaxUriLen characters, and of twice as many
Uris == { [j \in 1..m |-> 97 + (j % 26)] : m \in {0, MaxUriLen, 2 * MaxUriLen} }

\* the 12 bytes of a glm::vec3 of instance idx (1 position, 2 scale, 3 up, 4 right)
Vec3Bytes(kind, idx) == [j \in 1..Vec3Size |-> 1 + ((16 * kind + 4 * idx + j) % 200)]

\* the bytes tinygltf's WriteGltfSceneToStream leaves in the stringstream
GlbBytes(len) == [j \in 1..len |-> 1 + (j % 200)]

(***************************************************************************)
(* writeToI3DM, lines 96-246.  ma = [inst, center]: the models' attribute  *)
(* table and the tile's centre; sel = attribIndices.                       *)
(***************************************************************************)
\* lines 117-127
I3dmFeatureTableJson(ma, sel) ==
    LET totalInstances == Len(sel)
        totalPositionSize == totalInstances * Vec3Size
        totalScaleSize == totalInstances * Vec3Size
        totalNormalUpSize == totalInstances * Vec3Size
        positionOffset == 0
        scaleOffset == totalPositionSize
        normalUpOffset == scaleOffset + totalScaleSize
        normalRightOffset == normalUpOffset + totalNormalUpSize
        Off(o) == JObj(K_byteOffset :> JNum(o))
    IN  JObj(  (K_INSTANCES_LENGTH :> JNum(Len(sel)))
            @@ (K_RTC_CENTER :> JArr([i \in 1..3 |-> JRaw(ma.center[i])]))
            @@ (K_POSITION :> Off(positionOffset))
            @@ (K_SCALE_NON_UNIFORM :> Off(scaleOffset))
            @@ (K_NORMAL_UP :> Off(normalUpOffset))
            @@ (K_NORMAL_RIGHT :> Off(normalRightOffset)) )

\* lines 131-132: the size the feature table buffer is resized to
I3dmFeatureTableBufferSize(totalInstances) ==
    roundUp(totalInstances * Vec3Size + totalInstances * Vec3Size
            + totalInstances * Vec3Size + totalInstances * Vec3Size, 8)

\* lines 133-157: one memcpy per array and selected instance
RECURSIVE I3dmFillFeatureTable(_, _, _)
I3dmFillFeatureTable(buf, sel, i) ==
    IF i >= Len(sel) THEN buf
    ELSE LET n == Len(sel)
             instanceIdx == sel[i + 1]
             b1 == MemCpy(buf, 0 + i * Vec3Size, Vec3Bytes(1, instanceIdx))
             b2 == MemCpy(b1, n * Vec3Size + i * Vec3Size, Vec3Bytes(2, instanceIdx))
             b3 == MemCpy(b2, 2 * n * Vec3Size + i * Vec3Size, Vec3Bytes(3, instanceIdx))
             b4 == MemCpy(b3, 3 * n * Vec3Size + i * Vec3Size, Vec3Bytes(4, instanceIdx))
         IN  I3dmFillFeatureTable(b4, sel, i + 1)

I3dmFeatureTableBuffer(sel) ==
    I3dmFillFeatureTable(Zeros(I3dmFeatureTableBufferSize(Len(sel))), sel, 0)

\* line 164 without the roundUp: the integer section left at its raw size
I3dmTotalIntSizeUnrounded(totalInstances, numIntegerAttribs) ==
    totalInstances * numIntegerAttribs * Int32Size

\* line 164
I3dmTotalIntSize(totalInstances, numIntegerAttribs) ==
    roundUp(totalInstances * numIntegerAttribs * Int32Size, 8)

\* line 165
I3dmTotalDoubleSize(totalInstances, numDoubleAttribs) ==
    totalInstances * numDoubleAttribs * DoubleSize

\* lines 169-172 looping over the whole table instead of attribIndices
I3dmCnamJsonOfAllInstances(tbl, sel) ==
    JPut(JNull, K_CNAM, JArr([i \in 1..Len(tbl.CNAMs) |-> JStr(tbl.CNAMs[i])]))

\* lines 169-172
I3dmCnamJson(tbl, sel) ==
    JPut(JNull, K_CNAM, JArr([i \in 1..Len(sel) |-> JStr(tbl.CNAMs[sel[i] + 1])]))

\* lines 179-181: emplace_back of each selected string
RECURSIVE I3dmAppendStrings(_, _, _, _)
I3dmAppendStrings(json, name, column, sel) ==
    IF sel = <<>> THEN json
    ELSE I3dmAppendStrings(JAppend(json, name, JStr(column[Head(sel) + 1])),
                           name, column, Tail(sel))

\* lines 174-182
RECURSIVE I3dmStringAttribs(_, _, _, _)
I3dmStringAttribs(json, names, tbl, sel) ==
    IF names = <<>> THEN json
    ELSE LET name == Head(names)
             j1 == IF ~JHas(json, name) THEN JPut(json, name, JArr(<<>>)) ELSE json
         IN  I3dmStringAttribs(I3dmAppendStrings(j1, name, tbl.strs[name], sel),
                               Tail(names), tbl, sel)

\* json[name]["byteOffset" | "type" | "componentType"] of lines 186-188, 198-200
Descriptor(json, name, offset, componentType) ==
    JPut(json, name,
         JPut(JPut(JPut(JGet(json, name), K_byteOffset, JNum(offset)),
                   K_type, JStr(T_SCALAR)),
              K_componentType, JStr(componentType)))

\* lines 189-193: st = [json, buf, off]
RECURSIVE I3dmCopyInts(_, _, _)
\* lines 189-193 without line 192: batchTableOffset is not advanced
I3dmCopyIntsInPlace(st, column, sel) ==
    IF sel = <<>> THEN st
    ELSE LET value == column[Head(sel) + 1]
         IN  I3dmCopyInts([st EXCEPT !.buf = MemCpy(st.buf, st.off, Int32Bytes(value))],
                          column, Tail(sel))
I3dmCopyInts(st, column, sel) ==
    IF sel = <<>> THEN st
    ELSE LET value == column[Head(sel) + 1]
         IN  I3dmCopyInts([st EXCEPT !.buf = MemCpy(st.buf, st.off, Int32Bytes(value)),
                                     !.off = st.off + Int32Size],
                          column, Tail(sel))

\* lines 185-194
RECURSIVE I3dmIntegerAttribs(_, _, _, _)
I3dmIntegerAttribs(st, names, tbl, sel) ==
    IF names = <<>> THEN st
    ELSE LET name == Head(names)
             s1 == [st EXCEPT !.json = Descriptor(st.json, name, st.off, T_INT)]
         IN  I3dmIntegerAttribs(I3dmCopyInts(s1, tbl.ints[name], sel),
                                Tail(names), tbl, sel)

\* lines 201-205
RECURSIVE I3dmCopyDoubles(_, _, _)
I3dmCopyDoubles(st, column, sel) ==
    IF sel = <<>> THEN st
    ELSE LET value == column[Head(sel) + 1]
         IN  I3dmCopyDoubles([st EXCEPT !.buf = MemCpy(st.buf, st.off, value),
                                        !.off = st.off + DoubleSize],
                             column, Tail(sel))

\* lines 197-206
RECURSIVE I3dmDoubleAttribs(_, _, _, _)
I3dmDoubleAttribs(st, names, tbl, sel) ==
    IF names = <<>> THEN st
    ELSE LET name == Head(names)
             s1 == [st EXCEPT !.json = Descriptor(st.json, name, st.off, T_DOUBLE)]
         IN  I3dmDoubleAttribs(I3dmCopyDoubles(s1, tbl.dbls[name], sel),
                               Tail(names), tbl, sel)

\* lines 159-206: the batch table of the instanced tile, [json, buf, off]
I3dmBatchTable(tbl, sel) ==
    LET totalInstances == Len(sel)
        totalIntSize == I3dmTotalIntSize(totalInstances, Cardinality(DOMAIN tbl.ints))
        totalDoubleSize == I3dmTotalDoubleSize(totalInstances, Cardinality(DOMAIN tbl.dbls))
        j0 == I3dmStringAttribs(I3dmCnamJson(tbl, sel), SortKeys(DOMAIN tbl.strs), tbl, sel)
        s0 == [json |-> j0, buf |-> Zeros(totalIntSize + totalDoubleSize), off |-> 0]
        s1 == I3dmIntegerAttribs(s0, SortKeys(DOMAIN tbl.ints), tbl, sel)
        s2 == [s1 EXCEPT !.off = roundUp(s1.off, 8)]
    IN  I3dmDoubleAttribs(s2, SortKeys(DOMAIN tbl.dbls), tbl, sel)

\* lines 210-211: the spaces appended to the feature table JSON
I3dmFeatureTablePadding(size) ==
    LET headerToRoundUp == I3dmHeaderSize + size
    IN  roundUp(headerToRoundUp, 8) - headerToRoundUp

\* lines 214, 216 padding up to the next boundary even from a boundary
I3dmTextPaddingToNextBoundary(size) == 8 - (size % 8)

\* lines 214, 216: the spaces appended to the batch table JSON and to the URI
I3dmTextPadding(size) == roundUp(size, 8) - size

\* lines 224-229 without line 229: the URI left out of the total
I3dmByteLengthWithoutUri(featureTableString, featureTableBuffer, batchTableString, batchTableBuffer, GltfURI) ==
    I3dmHeaderSize + Len(featureTableString) + Len(featureTableBuffer)
    + Len(batchTableString) + Len(batchTableBuffer)

\* lines 224-229
I3dmByteLength(featureTableString, featureTableBuffer, batchTableString, batchTableBuffer, GltfURI) ==
    I3dmHeaderSize + Len(featureTableString) + Len(featureTableBuffer)
    + Len(batchTableString) + Len(batchTableBuffer) + Len(GltfURI)

\* lines 218-234: the I3dmHeader as stored
I3dmHeaderBytes(h) ==
    h.magic \o LE32(h.version) \o LE32(h.byteLength)
    \o LE32(h.featureTableJsonByteLength) \o LE32(h.featureTableBinByteLength)
    \o LE32(h.batchTableJsonByteLength) \o LE32(h.batchTableBinByteLength)
    \o LE32(h.gltfFormat)

\* writeToI3DM up to line 234: everything it computes before writing
I3dmBuild(uri, ma, sel) ==
    LET featureTableJson == I3dmFeatureTableJson(ma, sel)
        featureTableBuffer == I3dmFeatureTableBuffer(sel)
        batch == I3dmBatchTable(ma.inst, sel)
        ftDump == Dump(featureTableJson)
        featureTableString == ftDump \o Spaces(I3dmFeatureTablePadding(Len(ftDump)))
        btDump == Dump(batch.json)
        batchTableString == btDump \o Spaces(I3dmTextPadding(Len(btDump)))
        GltfURI == uri \o Spaces(I3dmTextPadding(Len(uri)))
        header == [ magic |-> MagicI3dm,
                    version |-> 1,
                    byteLength |-> I3dmByteLength(featureTableString, featureTableBuffer,
                                                  batchTableString, batch.buf, GltfURI),
                    featureTableJsonByteLength |-> Len(featureTableString),
                    featureTableBinByteLength |-> Len(featureTableBuffer),
                    batchTableJsonByteLength |-> Len(batchTableString),
                    batchTableBinByteLength |-> Len(batch.buf),
                    gltfFormat |-> 0 ]
    IN  [ header |-> header,
          featureTableJson |-> featureTableJson,
          batchTableJson |-> batch.json,
          featureTableString |-> featureTableString,
          featureTableBuffer |-> featureTableBuffer,
          batchTableString |-> batchTableString,
          batchTableBuffer |-> batch.buf,
          payload |-> GltfURI ]

(***************************************************************************)
(* createBatchTable, lines 344-394.  A pointer argument is a sequence of   *)
(* at most one element: <<>> is the null pointer.                          *)
(***************************************************************************)
\* line 355 without the roundUp
CbtTotalIntegerSizeUnrounded(numIntegerAttribs, instancesCount) ==
    numIntegerAttribs * Int32Size * instancesCount

\* line 355
CbtTotalIntegerSize(numIntegerAttribs, instancesCount) ==
    roundUp(numIntegerAttribs * Int32Size * instancesCount, 8)

\* line 356
CbtTotalDoubleSize(numDoubleAttribs, instancesCount) ==
    numDoubleAttribs * DoubleSize * instancesCount

\* keyValue.second.data() viewed as bytes, lines 372 and 383
IntColumnBytes(column) == Concat([i \in 1..Len(column) |-> Int32Bytes(column[i])])
DoubleColumnBytes(column) == Concat(column)

\* lines 361-366
RECURSIVE CbtStringAttribs(_, _, _)
CbtStringAttribs(json, names, tbl) ==
    IF names = <<>> THEN json
    ELSE CbtStringAttribs(
             JPut(json, Head(names),
                  JArr([i \in 1..Len(tbl.strs[Head(names)]) |->
                            JStr(tbl.strs[Head(names)][i])])),
             Tail(names), tbl)

\* lines 370-378: st = [json, buf, off]
RECURSIVE CbtIntegerAttribs(_, _, _)
CbtIntegerAttribs(st, names, tbl) ==
    IF names = <<>> THEN st
    ELSE LET name == Head(names)
             batchTableSize == Len(tbl.ints[name]) * Int32Size
         IN  CbtIntegerAttribs(
                 [ json |-> Descriptor(st.json, name, st.off, T_INT),
                   buf  |-> MemCpy(st.buf, st.off, IntColumnBytes(tbl.ints[name])),
                   off  |-> st.off + batchTableSize ],
                 Tail(names), tbl)

\* lines 381-389
RECURSIVE CbtDoubleAttribs(_, _, _)
CbtDoubleAttribs(st, names, tbl) ==
    IF names = <<>> THEN st
    ELSE LET name == Head(names)
             batchTableSize == Len(tbl.dbls[name]) * DoubleSize
         IN  CbtDoubleAttribs(
                 [ json |-> Descriptor(st.json, name, st.off, T_DOUBLE),
                   buf  |-> MemCpy(st.buf, st.off, DoubleColumnBytes(tbl.dbls[name])),
                   off  |-> st.off + batchTableSize ],
                 Tail(names), tbl)

\* lines 391-392: the spaces appended to the dumped batch table JSON
CbtPadding(size) == roundUp(size, 8) - size

\* the whole function: [json, str, buf], the out-parameters as left on return
createBatchTable(instancesAttribs) ==
    IF instancesAttribs = <<>>
    THEN [json |-> JNull, str |-> <<>>, buf |-> <<>>, off |-> 0]
    ELSE LET tbl == instancesAttribs[1]
             instancesCount == tbl.n
             totalIntegerSize ==
                 CbtTotalIntegerSize(Cardinality(DOMAIN tbl.ints), instancesCount)
             totalDoubleSize ==
                 CbtTotalDoubleSize(Cardinality(DOMAIN tbl.dbls), instancesCount)
             j0 == JPut(JNull, K_CNAM, JArr([i \in 1..Len(tbl.CNAMs) |-> JStr(tbl.CNAMs[i])]))
             j1 == CbtStringAttribs(j0, SortKeys(DOMAIN tbl.strs), tbl)
             s0 == [json |-> j1, buf |-> Zeros(totalIntegerSize + totalDoubleSize), off |-> 0]
             s1 == CbtIntegerAttribs(s0, SortKeys(DOMAIN tbl.ints), tbl)
             s2 == [s1 EXCEPT !.off = roundUp(s1.off, 8)]
             s3 == CbtDoubleAttribs(s2, SortKeys(DOMAIN tbl.dbls), tbl)
             dump == Dump(s3.json)
         IN  [ json |-> s3.json,
               str  |-> dump \o Spaces(CbtPadding(Len(dump))),
               buf  |-> s3.buf,
               off  |-> s3.off ]

(***************************************************************************)
(* writeToB3DM, lines 248-299.  glb is what the scene writer produced.     *)
(***************************************************************************)
\* lines 256-259: the glb copied into a zero-filled buffer of rounded size
B3dmGlbBuffer(glb) == MemCpy(Zeros(roundUp(Len(glb), 8)), 0, glb)

\* lines 262-265 without the read of getInstancesCount()
B3dmNumOfBatchIDLeftZero(instancesAttribs) == 0

\* lines 262-265
B3dmNumOfBatchID(instancesAttribs) ==
    IF instancesAttribs # <<>> THEN instancesAttribs[1].n ELSE 0

\* lines 267-268 rounding the JSON's own length, as lines 391-392 do
B3dmFeatureTablePaddingOfJsonAlone(size) == roundUp(size, 8) - size

\* lines 267-268: the spaces appended to the feature table JSON
B3dmFeatureTablePadding(size) ==
    LET headerToRoundUp == B3dmHeaderSize + size
    IN  roundUp(headerToRoundUp, 8) - headerToRoundUp

\* lines 282-286
B3dmByteLength(featureTableString, batchTableHeader, batchTableBuffer, glbBuffer) ==
    B3dmHeaderSize + Len(featureTableString) + Len(batchTableHeader)
    + Len(batchTableBuffer) + Len(glbBuffer)

\* lines 276-290: the B3dmHeader as stored
B3dmHeaderBytes(h) ==
    h.magic \o LE32(h.version) \o LE32(h.byteLength)
    \o LE32(h.featureTableJsonByteLength) \o LE32(h.featureTableBinByteLength)
    \o LE32(h.batchTableJsonByteLength) \o LE32(h.batchTableBinByteLength)

\* writeToB3DM up to line 290: everything it computes before writing
B3dmBuild(glb, instancesAttribs) ==
    LET glbBuffer == B3dmGlbBuffer(glb)
        numOfBatchID == B3dmNumOfBatchID(instancesAttribs)
        ftText == T_BatchLengthPrefix \o ToStr(numOfBatchID) \o <<125>>
        featureTableString == ftText \o Spaces(B3dmFeatureTablePadding(Len(ftText)))
        batch == createBatchTable(instancesAttribs)
        header == [ magic |-> MagicB3dm,
                    version |-> 1,
                    byteLength |-> B3dmByteLength(featureTableString, batch.str,
                                                  batch.buf, glbBuffer),
                    featureTableJsonByteLength |-> Len(featureTableString),
                    featureTableBinByteLength |-> 0,
                    batchTableJsonByteLength |-> Len(batch.str),
                    batchTableBinByteLength |-> Len(batch.buf) ]
    IN  [ header |-> header,
          featureTableJson |-> JObj(<<66, 65, 84, 67, 72, 95, 76, 69, 78, 71, 84, 72>>
                                    :> JNum(numOfBatchID)),
          batchTableJson |-> batch.json,
          featureTableString |-> featureTableString,
          featureTableBuffer |-> <<>>,
          batchTableString |-> batch.str,
          batchTableBuffer |-> batch.buf,
          payload |-> glbBuffer ]

(***************************************************************************)
(* The output stream (std::ofstream): s = [data, pos, log].  write puts    *)
(* the bytes at the put position, over what is there, and advances it;     *)
(* log lists the writes of the running call as [at, len].                  *)
(***************************************************************************)
FsWrite(s, bytes) ==
    [ data |-> [i \in 1..Max2(Len(s.data), s.pos + Len(bytes)) |->
                   IF i > s.pos /\ i <= s.pos + Len(bytes)
                   THEN bytes[i - s.pos] ELSE s.data[i]],
      pos  |-> s.pos + Len(bytes),
      log  |-> Append(s.log, [at |-> s.pos, len |-> Len(bytes)]) ]

\* fs.seekp(off, std::ios::beg)
FsSeekBeg(s, off) == [s EXCEPT !.pos = off]

RECURSIVE FsWriteAll(_, _)
FsWriteAll(s, chunks) ==
    IF chunks = <<>> THEN s ELSE FsWriteAll(FsWrite(s, Head(chunks)), Tail(chunks))

Stream == [data |-> fs, pos |-> pos, log |-> <<>>]

\* the writes of writeToI3DM with the batch table ahead of the feature table
I3dmWritesBatchTableFirst(b) ==
    << I3dmHeaderBytes(b.header), b.batchTableString, b.batchTableBuffer,
       b.featureTableString, b.featureTableBuffer, b.payload >>

\* lines 236-243: the writes of writeToI3DM, in order
I3dmWrites(b) ==
    << I3dmHeaderBytes(b.header), b.featureTableString, b.featureTableBuffer,
       b.batchTableString, b.batchTableBuffer, b.payload >>

\* lines 292-298: the writes of writeToB3DM, in order
B3dmWrites(b) ==
    << B3dmHeaderBytes(b.header), b.featureTableString,
       b.batchTableString, b.batchTableBuffer, b.payload >>

\* line 245
I3dmReturn(b) == b.header.byteLength

(***************************************************************************)
(* writeToCMPT, lines 322-342.  A frame of stack is one running call:      *)
(* its local header, the loop index i, numOfTiles; start (the put position *)
(* on entry) and returned (the callback's results so far) are history.     *)
(***************************************************************************)
CmptHeaderBytes(h) ==
    h.magic \o LE32(h.version) \o LE32(h.byteLength) \o LE32(h.titleLength)

\* lines 326-333
CmptInitialHeader(numOfTiles) ==
    [magic |-> MagicCmpt, version |-> 1, titleLength |-> numOfTiles,
     byteLength |-> CmptHeaderSize]

\* line 337: header.byteLength += writeToTileFormat(fs, i); ++i
CmptAccumulate(frame, returned) ==
    [frame EXCEPT !.header.byteLength = @ + returned,
                  !.i = @ + 1,
                  !.returned = Append(@, returned)]

\* line 340: the position the header is rewritten at
CmptSeekTarget(frame) == 0

Top == stack[Len(stack)]
InCallback == stack # <<>> /\ Top.i < Top.numOfTiles
FreshStream == stack = <<>> /\ fs = <<>> /\ pos = 0 /\ phase = "open"

\* the stack after the running callback returned r to the loop of line 336
CallbackReturns(stk, r) == [stk EXCEPT ![Len(stk)] = CmptAccumulate(@, r)]

(***************************************************************************)
(* Arguments the callers pass.                                             *)
(***************************************************************************)
B3dmArgs ==
    { [glb |-> GlbBytes(g), attribs |-> a] :
        g \in 0..MaxGlbLen, a \in {<<>>} \cup {<<t>> : t \in Tables} }

\* what the sub-tile callbacks of a composite write
SubI3dmArgs ==
    { [uri |-> [j \in 1..3 |-> 97 + j],
       ma  |-> [inst |-> MkTable(1, 1, 1, 0),
                center |-> << <<48, 46, 48>>, <<48, 46, 48>>, <<48, 46, 48>> >>],
       sel |-> <<0>>] }

SubB3dmArgs == { [glb |-> GlbBytes(3), attribs |-> <<MkTable(1, 1, 0, 0)>>] }

\* the bytes a callback that writes no tile format puts on the stream
RawBytes == [j \in 1..8 |-> 170]
\* what such a callback may return, whatever it wrote
RawReturns == { 8 * r : r \in 0..MaxRaw }

(***************************************************************************)
(* tinygltf::Value, a tagged value: [t, v] with t the Type().  VNull is    *)
(* the default-constructed value, of NULL_TYPE.                            *)
(***************************************************************************)
VNull == [v |-> 0, t |-> "null"]
VInt(n) == [v |-> n, t |-> "int"]
VReal(x) == [v |-> x, t |-> "real"]
VStr(s) == [v |-> s, t |-> "str"]
VBool(b) == [v |-> b, t |-> "bool"]
VArr(a) == [v |-> a, t |-> "arr"]
VObj(o) == [v |-> o, t |-> "obj"]

\* no call of ParseJsonAsValue yet: o the node, val what *ret holds, ret the result
NoParse == [o |-> JNull, called |-> FALSE, val |-> VNull, ret |-> FALSE]

\* a tinygltf::Model with nothing in it
EmptyModel ==
    [meshes |-> <<>>, accessors |-> <<>>, buffers |-> <<>>, bufferViews |-> <<>>,
     extensions |-> <<>>, extensionsUsed |-> <<>>]

\* no call of createFeatureMetadataClasses running: gltf the model, entry the
\* model as it was on entry, i the mesh loop's index, the rest its locals
NoCreate ==
    [i |-> 0, pc |-> "idle", gltf |-> EmptyModel, entry |-> EmptyModel, table |-> <<>>,
     metadataBufferData |-> <<>>, metadataExtension |-> JNull]

\* the state of a std::ofstream that has not failed: failed is fail(), throws is
\* whether the caller set exceptions(badbit | failbit), outcome is how the last
\* call on a failed stream ended
StreamGood == [failed |-> FALSE, throws |-> FALSE, outcome |-> "none"]

NoCall == [op |-> "none", start |-> 0, ret |-> 0, build |-> <<>>, log |-> <<>>, args |-> <<>>]

Init ==
    /\ fs = <<>>
    /\ pos = 0
    /\ stack = <<>>
    /\ ncalls = 0
    /\ last = NoCall
    /\ phase = "open"
    /\ tilesetOut = <<>>
    /\ io = StreamGood
    /\ parsed = NoParse
    /\ meta = NoCreate

\* the stream and the history after one tile writer wrote chunks
TileWritten(op, b, chunks, ret, args) ==
    LET s == FsWriteAll(Stream, chunks)
    IN  /\ fs' = s.data
        /\ pos' = s.pos
        /\ last' = [op |-> op, start |-> pos, ret |-> ret, build |-> b,
                    log |-> s.log, args |-> args]

\* size_t writeToI3DM(GltfURI, modelsAttribs, attribIndices, fs) on a new file
WriteToI3DM ==
    /\ FreshStream
    /\ \E u \in Uris, t \in Tables, c \in Centers :
         \E sl \in Selections(t.n) :
            LET a == [uri |-> u, ma |-> [inst |-> t, center |-> c], sel |-> sl]
                b == I3dmBuild(a.uri, a.ma, a.sel)
            IN  TileWritten("i3dm", b, I3dmWrites(b), I3dmReturn(b), a)
    /\ phase' = "closed"
    /\ UNCHANGED <<stack, ncalls, tilesetOut, io, parsed, meta>>

\* void writeToB3DM(gltf, instancesAttribs, fs) on a new file
WriteToB3DM ==
    /\ FreshStream
    /\ \E a \in B3dmArgs :
         LET b == B3dmBuild(a.glb, a.attribs)
         IN  TileWritten("b3dm", b, B3dmWrites(b), 0, a)
    /\ phase' = "closed"
    /\ UNCHANGED <<stack, ncalls, tilesetOut, io, parsed, meta>>

\* writeToCMPT, lines 326-335: entry, by a caller on a new file or by the
\* sub-tile callback of a running composite
WriteToCMPT ==
    /\ phase = "open"
    /\ FreshStream \/ (InCallback /\ Len(stack) < MaxDepth)
    /\ \E numOfTiles \in 0..MaxTiles :
         /\ ncalls + numOfTiles <= MaxCalls
         /\ LET header == CmptInitialHeader(numOfTiles)
                s == FsWrite(Stream, CmptHeaderBytes(header))
            IN  /\ fs' = s.data
                /\ pos' = s.pos
                /\ last' = [op |-> "enter", start |-> pos, ret |-> 0,
                            build |-> [header |-> header], log |-> s.log,
                            args |-> [numOfTiles |-> numOfTiles, returned |-> <<>>]]
                /\ stack' = Append(stack, [header |-> header, i |-> 0,
                                           numOfTiles |-> numOfTiles,
                                           start |-> pos, returned |-> <<>>])
         /\ ncalls' = ncalls + numOfTiles
    /\ UNCHANGED <<phase, tilesetOut, io, parsed, meta>>

\* line 337 with a callback that returns writeToI3DM's result
CallbackI3DM ==
    /\ InCallback
    /\ \E a \in SubI3dmArgs :
         LET b == I3dmBuild(a.uri, a.ma, a.sel)
         IN  /\ TileWritten("i3dm", b, I3dmWrites(b), I3dmReturn(b), a)
             /\ stack' = CallbackReturns(stack, I3dmReturn(b))
    /\ UNCHANGED <<ncalls, phase, tilesetOut, io, parsed, meta>>

\* line 337 with a callback that calls writeToB3DM and returns the bytes it wrote
CallbackB3DM ==
    /\ InCallback
    /\ \E a \in SubB3dmArgs :
         LET b == B3dmBuild(a.glb, a.attribs)
         IN  /\ TileWritten("b3dm", b, B3dmWrites(b), 0, a)
             /\ stack' = CallbackReturns(stack, Len(Concat(B3dmWrites(b))))
    /\ UNCHANGED <<ncalls, phase, tilesetOut, io, parsed, meta>>

\* line 337 with any other callback: it writes what it likes, returns what it likes
CallbackRaw ==
    /\ InCallback
    /\ \E r \in RawReturns :
         LET s == FsWrite(Stream, RawBytes)
         IN  /\ fs' = s.data
             /\ pos' = s.pos
             /\ last' = [op |-> "raw", start |-> pos, ret |-> r, build |-> <<>>,
                         log |-> s.log, args |-> <<>>]
             /\ stack' = CallbackReturns(stack, r)
    /\ UNCHANGED <<ncalls, phase, tilesetOut, io, parsed, meta>>

\* writeToCMPT, lines 336 (loop exit), 340-341 and the return; a callback that
\* called it returns the composite's accumulated length to the outer loop
CmptReturn ==
    /\ stack # <<>>
    /\ Top.i >= Top.numOfTiles
    /\ LET f == Top
           s == FsWrite(FsSeekBeg(Stream, CmptSeekTarget(f)), CmptHeaderBytes(f.header))
           rest == SubSeq(stack, 1, Len(stack) - 1)
       IN  /\ fs' = s.data
           /\ pos' = s.pos
           /\ last' = [op |-> "cmpt", start |-> f.start, ret |-> 0,
                       build |-> [header |-> f.header], log |-> s.log,
                       args |-> [numOfTiles |-> f.numOfTiles, returned |-> f.returned,
                                 end |-> pos]]
           /\ stack' = IF rest = <<>> THEN rest
                       ELSE CallbackReturns(rest, f.header.byteLength)
           /\ phase' = IF rest = <<>> THEN "closed" ELSE phase
    /\ UNCHANGED <<ncalls, tilesetOut, io, parsed, meta>>

\* the caller closes the file and opens the next one
NextFile ==
    /\ phase = "closed"
    /\ fs' = <<>>
    /\ pos' = 0
    /\ stack' = <<>>
    /\ ncalls' = 0
    /\ last' = NoCall
    /\ phase' = "open"
    /\ UNCHANGED <<tilesetOut, io, parsed, meta>>

(***************************************************************************)
(* Tileset inputs.  A CDBTile is [region, uri, children]; a child slot, a *)
(* pointer, and an optional are sequences of at most one element.         *)
(***************************************************************************)
Region(w, s, e, n, lo, hi) ==
    [west |-> w, south |-> s, east |-> e, north |-> n, minH |-> lo, maxH |-> hi]

\* one-degree cells, as the geocells of a CDB
Regions ==
    { Region(w, s, w + 1, s + 1, h, h + 1 + w) :
        w \in 0..(MaxCoord - 1), s \in 0..(MaxCoord - 1), h \in 0..1 }

\* "t.b3dm"
TileUri == <<116, 46, 98, 51, 100, 109>>

Tile(children) ==
    [ region |-> Region(0, 0, 1, 1, 0, 1),
      uri |-> IF children = <<>> THEN <<TileUri>> ELSE <<>>,
      children |-> children ]

\* the child-slot lists of length len holding n tiles in all, each of height <= d,
\* and the tiles of n nodes and height <= d
RECURSIVE SlotLists(_, _, _)
RECURSIVE TilesOfSize(_, _)
SlotLists(len, n, d) ==
    IF len = 0 THEN (IF n = 0 THEN {<<>>} ELSE {})
    ELSE { << <<>> >> \o r : r \in SlotLists(len - 1, n, d) }
         \cup (IF d < 0 THEN {}
               ELSE UNION { { << <<t>> >> \o r :
                                t \in TilesOfSize(k, d), r \in SlotLists(len - 1, n - k, d) } :
                            k \in 1..n })
TilesOfSize(n, d) ==
    { Tile(c) : c \in UNION { SlotLists(len, n - 1, d - 1) : len \in 0..MaxSlots } }

Tiles == UNION { TilesOfSize(n, MaxTreeDepth) : n \in 1..MaxNodes }

\* CDBTileset::getRoot(): absent for an empty tileset
Roots == {<<>>} \cup { <<t>> : t \in Tiles }

\* the six numbers of a "region" array, lines 48-56, 64-72, 594-602
K_region == <<114, 101, 103, 105, 111, 110>>
RegionJson(r) ==
    JObj(K_region :>
         JArr(<< JFlt(Flt(r.west)), JFlt(Flt(r.south)), JFlt(Flt(r.east)),
                 JFlt(Flt(r.north)), JFlt(Flt(r.minH)), JFlt(Flt(r.maxH)) >>))

K_asset == <<97, 115, 115, 101, 116>>
K_version == <<118, 101, 114, 115, 105, 111, 110>>
K_geometricError == <<103, 101, 111, 109, 101, 116, 114, 105, 99, 69, 114, 114, 111, 114>>
K_root == <<114, 111, 111, 116>>
K_refine == <<114, 101, 102, 105, 110, 101>>
K_children == <<99, 104, 105, 108, 100, 114, 101, 110>>
K_boundingVolume == <<98, 111, 117, 110, 100, 105, 110, 103, 86, 111, 108, 117, 109, 101>>
K_content == <<99, 111, 110, 116, 101, 110, 116>>
K_uri == <<117, 114, 105>>
K_extensionsUsed == <<101, 120, 116, 101, 110, 115, 105, 111, 110, 115, 85, 115, 101, 100>>
K_extensionsRequired ==
    <<101, 120, 116, 101, 110, 115, 105, 111, 110, 115, 82, 101, 113, 117, 105, 114, 101, 100>>
T_ADD == <<65, 68, 68>>
T_REPLACE == <<82, 69, 80, 76, 65, 67, 69>>
T_1_0 == <<49, 46, 48>>
T_3DTILES_content_gltf ==
    <<51, 68, 84, 73, 76, 69, 83, 95, 99, 111, 110, 116, 101, 110, 116, 95, 103, 108, 116, 102>>

(***************************************************************************)
(* convertTilesetToJson, lines 590-627.                                    *)
(***************************************************************************)
\* line 612: the test that makes a tile a leaf
IsLeaf(children) == children = <<>>

\* line 623 without the division: a child gets its parent's error
ChildErrorOfParent(geometricError) == geometricError

\* line 623: the error passed down to a child
ChildError(geometricError) == Half(geometricError)

RECURSIVE convertTilesetToJson(_, _, _)
RECURSIVE ConvertChildren(_, _, _)
convertTilesetToJson(tile, geometricError, json) ==
    LET j1 == JPut(json, K_boundingVolume, RegionJson(tile.region))
        j2 == IF tile.uri # <<>>
              THEN JPut(j1, K_content, JObj(K_uri :> JStr(tile.uri[1])))
              ELSE j1
    IN  IF IsLeaf(tile.children)
        THEN JPut(j2, K_geometricError, JFlt(Flt(0)))
        ELSE ConvertChildren(tile.children, geometricError,
                             JPut(j2, K_geometricError, JFlt(geometricError)))
\* lines 617-625
ConvertChildren(children, geometricError, json) ==
    IF children = <<>> THEN json
    ELSE IF Head(children) = <<>>
         THEN ConvertChildren(Tail(children), geometricError, json)
         ELSE LET childJson ==
                      convertTilesetToJson(Head(children)[1], ChildError(geometricError),
                                           EmptyObj)
              IN  ConvertChildren(Tail(children), geometricError,
                                  JAppend(json, K_children, childJson))

(***************************************************************************)
(* writeToTilesetJson, lines 77-94: the document and whether it is written.*)
(***************************************************************************)
\* lines 77-94 with line 91 storing MAX_GEOMETRIC_ERROR, as line 28 does
writeToTilesetJsonWithFixedError(root, replace) ==
    LET j0 == JObj(  (K_asset :> JObj(K_version :> JStr(T_1_0)))
                  @@ (K_root :> JObj(K_refine :> JStr(IF replace THEN T_REPLACE ELSE T_ADD))) )
    IN  IF root # <<>>
        THEN LET rootJson == convertTilesetToJson(root[1], Flt(MAX_GEOMETRIC_ERROR),
                                                  JGet(j0, K_root))
                 j1 == JPut(j0, K_root, rootJson)
                 j2 == JPut(j1, K_geometricError, JFlt(Flt(MAX_GEOMETRIC_ERROR)))
             IN  [json |-> j2, written |-> TRUE]
        ELSE [json |-> j0, written |-> FALSE]

writeToTilesetJson(root, replace) ==
    LET j0 == JObj(  (K_asset :> JObj(K_version :> JStr(T_1_0)))
                  @@ (K_root :> JObj(K_refine :> JStr(IF replace THEN T_REPLACE ELSE T_ADD))) )
    IN  IF root # <<>>
        THEN LET rootJson == convertTilesetToJson(root[1], Flt(MAX_GEOMETRIC_ERROR),
                                                  JGet(j0, K_root))
                 j1 == JPut(j0, K_root, rootJson)
                 j2 == JPut(j1, K_geometricError, JGet(rootJson, K_geometricError))
             IN  [json |-> j2, written |-> TRUE]
        ELSE [json |-> j0, written |-> FALSE]

(***************************************************************************)
(* combineTilesetJson, lines 21-75.                                        *)
(***************************************************************************)
\* Core::BoundingRegion::computeUnion
computeUnion(a, b) ==
    Region(Min2(a.west, b.west), Min2(a.south, b.south),
           Max2(a.east, b.east), Max2(a.north, b.north),
           Min2(a.minH, b.minH), Max2(a.maxH, b.maxH))

\* lines 44-56
CombineChildJson(path, childBoundRegion) ==
    JObj(  (K_geometricError :> JFlt(Flt(MAX_GEOMETRIC_ERROR)))
        @@ (K_content :> JObj(K_uri :> JStr(path)))
        @@ (K_boundingVolume :> RegionJson(childBoundRegion)) )

\* lines 40-60: st = [rootChildren, rootRegion]
RECURSIVE CombineLoop(_, _, _, _)
\* lines 40-60 with line 59 assigning the child's region instead of the union
CombineLoopKeepingLastRegion(st, i, tilesetJsonPaths, regions) ==
    IF i >= Len(tilesetJsonPaths) THEN st
    ELSE LET childBoundRegion == regions[i + 1]
         IN  CombineLoop(
                 [ rootChildren |-> Append(st.rootChildren,
                                           CombineChildJson(tilesetJsonPaths[i + 1],
                                                            childBoundRegion)),
                   rootRegion |-> childBoundRegion ],
                 i + 1, tilesetJsonPaths, regions)
CombineLoop(st, i, tilesetJsonPaths, regions) ==
    IF i >= Len(tilesetJsonPaths) THEN st
    ELSE LET childBoundRegion == regions[i + 1]
         IN  CombineLoop(
                 [ rootChildren |-> Append(st.rootChildren,
                                           CombineChildJson(tilesetJsonPaths[i + 1],
                                                            childBoundRegion)),
                   rootRegion |-> computeUnion(st.rootRegion, childBoundRegion) ],
                 i + 1, tilesetJsonPaths, regions)

\* lines 38-39: the fold's start
CombineStart(regions) == [rootChildren |-> <<>>, rootRegion |-> regions[1]]

combineTilesetJson(tilesetJsonPaths, regions, use3dTilesNext) ==
    LET j0 == JObj(  (K_asset :> JObj(K_version :> JStr(T_1_0)))
                  @@ (K_geometricError :> JFlt(Flt(MAX_GEOMETRIC_ERROR)))
                  @@ (K_root :> JObj(  (K_refine :> JStr(T_ADD))
                                    @@ (K_geometricError :> JFlt(Flt(MAX_GEOMETRIC_ERROR))))) )
        j1 == IF use3dTilesNext
              THEN JPut(JPut(j0, K_extensionsUsed, JArr(<<JStr(T_3DTILES_content_gltf)>>)),
                        K_extensionsRequired, JArr(<<JStr(T_3DTILES_content_gltf)>>))
              ELSE j0
        st == CombineLoop(CombineStart(regions), 0, tilesetJsonPaths, regions)
        root == JPut(JPut(JGet(j1, K_root), K_children, JArr(st.rootChildren)),
                     K_boundingVolume, RegionJson(st.rootRegion))
    IN  [json |-> JPut(j1, K_root, root), rootRegion |-> st.rootRegion]

\* "t<i>.json"
PathOf(i) == <<116, 48 + i, 46, 106, 115, 111, 110>>

\* fs << tilesetJson << std::endl
StreamJson(json) == FsWrite(Stream, Dump(json) \o <<10>>)

WriteToTilesetJson ==
    /\ FreshStream
    /\ \E root \in Roots, replace \in BOOLEAN :
         LET r == writeToTilesetJson(root, replace)
             s == IF r.written THEN StreamJson(r.json) ELSE Stream
         IN  /\ fs' = s.data
             /\ pos' = s.pos
             /\ tilesetOut' = [op |-> "tileset", json |-> r.json, written |-> r.written,
                               args |-> [root |-> root, replace |-> replace]]
    /\ phase' = "closed"
    /\ UNCHANGED <<stack, ncalls, last, io, parsed, meta>>

CombineTilesetJson ==
    /\ FreshStream
    /\ \E n \in 1..MaxRegions, use3dTilesNext \in BOOLEAN :
         \E regions \in [1..n -> Regions] :
            LET paths == [i \in 1..n |-> PathOf(i)]
                r == combineTilesetJson(paths, regions, use3dTilesNext)
                s == StreamJson(r.json)
            IN  /\ fs' = s.data
                /\ pos' = s.pos
                /\ tilesetOut' = [op |-> "combine", json |-> r.json, written |-> TRUE,
                                  args |-> [paths |-> paths, regions |-> regions,
                                            use3dTilesNext |-> use3dTilesNext]]
    /\ phase' = "closed"
    /\ UNCHANGED <<stack, ncalls, last, io, parsed, meta>>

\* the caller closes the file and opens the next one
NextTilesetFile ==
    /\ phase = "closed"
    /\ fs' = <<>>
    /\ pos' = 0
    /\ phase' = "open"
    /\ tilesetOut' = <<>>
    /\ UNCHANGED <<stack, ncalls, last, io, parsed, meta>>

NextTileset ==
    \/ WriteToTilesetJson
    \/ CombineTilesetJson
    \/ NextTilesetFile

SpecTileset == Init /\ [][NextTileset]_vars

Next ==
    \/ WriteToI3DM
    \/ WriteToB3DM
    \/ WriteToCMPT
    \/ CallbackI3DM
    \/ CallbackB3DM
    \/ CallbackRaw
    \/ CmptReturn
    \/ NextFile

Spec == Init /\ [][Next]_vars

(***************************************************************************)
(* Reading back the tile the last call wrote, from the stream itself.      *)
(***************************************************************************)
RECURSIVE SumSeq(_)
SumSeq(q) == IF q = <<>> THEN 0 ELSE Head(q) + SumSeq(Tail(q))

IsTile == last.op \in {"i3dm", "b3dm"}
HeaderSizeOf(op) == IF op = "i3dm" THEN I3dmHeaderSize ELSE B3dmHeaderSize
\* the k-th 4-byte field of the stored header (0 is the magic)
HeaderField(k) == ReadU32(fs, last.start + 4 * k)
\* lengths of the sections written after the header, in write order
SectionLens == [i \in 1..(Len(last.log) - 1) |-> last.log[i + 1].len]
\* offset of the i-th written section from the tile's first byte, and its bytes
SectionBegin(i) == last.log[i + 1].at - last.start
SectionEnd(i) == SectionBegin(i) + SectionLens[i]
SectionBytes(i) == SubSeq(fs, last.log[i + 1].at + 1, last.log[i + 1].at + SectionLens[i])
\* the written section each header length field describes (0: none is written)
\* fields 3..6: feature JSON, feature binary, batch JSON, batch binary
SectionOfField(op, k) ==
    IF op = "i3dm" THEN k - 2
    ELSE CASE k = 3 -> 1 [] k = 4 -> 0 [] k = 5 -> 2 [] k = 6 -> 3
PayloadSection(op) == IF op = "i3dm" THEN 5 ELSE 4
BatchJsonSection(op) == IF op = "i3dm" THEN 3 ELSE 2
BatchBinSection(op) == IF op = "i3dm" THEN 4 ELSE 3
\* the attribute table and the selection the last tile was packed from
LastTable ==
    IF last.op = "i3dm" THEN <<last.args.ma.inst>> ELSE last.args.attribs
LastSelection ==
    IF last.op = "i3dm" THEN last.args.sel
    ELSE IF last.args.attribs = <<>> THEN <<>>
    ELSE [i \in 1..last.args.attribs[1].n |-> i - 1]

(***************************************************************************)
(* C1: in every tile writeToI3DM or writeToB3DM wrote, the stored header's *)
(* byteLength is the header's size plus the lengths of all sections        *)
(* written after it, every per-section length field is the length of the   *)
(* section written for it, and writeToI3DM returns that byteLength, which  *)
(* is the number of bytes it put on the stream.                            *)
(***************************************************************************)
C1_ByteLengthIsTotal ==
    IsTile =>
        /\ last.log[1] = [at |-> last.start, len |-> HeaderSizeOf(last.op)]
        /\ HeaderField(2) = HeaderSizeOf(last.op) + SumSeq(SectionLens)
        /\ \A k \in 3..6 :
              HeaderField(k) = IF SectionOfField(last.op, k) = 0 THEN 0
                               ELSE SectionLens[SectionOfField(last.op, k)]
        /\ pos - last.start = HeaderField(2)
        /\ last.op = "i3dm" => last.ret = HeaderField(2)

C1_Witness ==
    /\ last.op = "i3dm"
    /\ \A i \in 1..5 : SectionLens[i] > 0
    /\ last.ret = pos
    /\ last.ret > I3dmHeaderSize

(***************************************************************************)
(* C2 as claimed: every padded section of a tile, taken on its own, has a  *)
(* length that is a multiple of 8, the batched-model tile's feature table  *)
(* JSON included.                                                          *)
(***************************************************************************)
C2_EverySectionMultipleOf8 ==
    IsTile => \A i \in 1..Len(SectionLens) : SectionLens[i] % 8 = 0

(***************************************************************************)
(* C2 amended: every padded section has a length that is a multiple of 8,  *)
(* except the feature table JSON of the batched-model tile: its length     *)
(* plus the 28-byte header is a multiple of 8, so its length is 4 mod 8.   *)
(***************************************************************************)
C2_SectionLengths ==
    IsTile =>
        \A i \in 1..Len(SectionLens) :
            IF last.op = "b3dm" /\ i = 1
            THEN /\ (B3dmHeaderSize + SectionLens[i]) % 8 = 0
                 /\ SectionLens[i] % 8 = 4
            ELSE SectionLens[i] % 8 = 0

C2_Witness ==
    /\ last.op = "b3dm"
    /\ last.args.attribs # <<>>
    /\ SectionLens[1] = 20
    /\ SectionLens[2] > 0 /\ SectionLens[3] > 0 /\ SectionLens[4] > 0

(***************************************************************************)
(* C3 as claimed: every section after the header begins at an offset from  *)
(* the tile's first byte that is a multiple of 8, the tile ends at one,    *)
(* and each section's padding is 0..7 bytes, spaces for JSON and URI text, *)
(* zero bytes for binary buffers.                                          *)
(***************************************************************************)
\* the unpadded content of the i-th written section
SectionContent(i) ==
    IF i = 1 THEN Dump(last.build.featureTableJson)
    ELSE IF i = BatchJsonSection(last.op)
         THEN (IF LastTable = <<>> THEN <<>> ELSE Dump(last.build.batchTableJson))
    ELSE IF i = PayloadSection(last.op)
         THEN (IF last.op = "i3dm" THEN last.args.uri ELSE last.args.glb)
    ELSE <<>>
IsTextSection(i) ==
    i = 1 \/ i = BatchJsonSection(last.op) \/ (last.op = "i3dm" /\ i = PayloadSection(last.op))
\* the section is its content followed by 0..7 bytes of the section's padding byte
PaddedMinimally(i) ==
    LET content == SectionContent(i)
        bytes == SectionBytes(i)
        padding == Len(bytes) - Len(content)
    IN  /\ padding \in 0..7
        /\ SubSeq(bytes, 1, Len(content)) = content
        /\ \A j \in (Len(content) + 1)..Len(bytes) :
              bytes[j] = IF IsTextSection(i) THEN 32 ELSE 0
\* the packed batch binary: 4-byte values, 0..7 zero bytes, 8-byte values
BatchBinPadding ==
    LET n == Len(LastSelection)
        k == IF LastTable = <<>> THEN 0 ELSE Cardinality(DOMAIN LastTable[1].ints)
        d == IF LastTable = <<>> THEN 0 ELSE Cardinality(DOMAIN LastTable[1].dbls)
        bytes == SectionBytes(BatchBinSection(last.op))
        padding == Len(bytes) - (Int32Size * n * k + DoubleSize * n * d)
    IN  /\ padding \in 0..7
        /\ \A j \in (Int32Size * n * k + 1)..(Int32Size * n * k + padding) : bytes[j] = 0
PaddingIsMinimal ==
    /\ \A i \in {1, BatchJsonSection(last.op), PayloadSection(last.op)} : PaddedMinimally(i)
    /\ BatchBinPadding
    /\ last.op = "i3dm" => SectionLens[2] = 4 * Vec3Size * Len(last.args.sel)

C3_EverySectionBeginsAligned ==
    IsTile =>
        /\ \A i \in 1..Len(SectionLens) : SectionBegin(i) % 8 = 0
        /\ (pos - last.start) % 8 = 0
        /\ PaddingIsMinimal

(***************************************************************************)
(* C3 amended: every section after the header ends at an offset from the   *)
(* tile's first byte that is a multiple of 8, so every section but the     *)
(* first begins at one and the tile ends at one; the first section begins  *)
(* right after the header, at 32 in an instanced tile and at 28, which is  *)
(* no multiple of 8, in a batched tile.  Padding is as claimed.            *)
(***************************************************************************)
C3_SectionBoundaries ==
    IsTile =>
        /\ SectionBegin(1) = HeaderSizeOf(last.op)
        /\ \A i \in 1..Len(SectionLens) : SectionEnd(i) % 8 = 0
        /\ \A i \in 2..Len(SectionLens) :
              SectionBegin(i) = SectionEnd(i - 1) /\ SectionBegin(i) % 8 = 0
        /\ pos - last.start = SectionEnd(Len(SectionLens))
        /\ (pos - last.start) % 8 = 0
        /\ PaddingIsMinimal

C3_Witness ==
    /\ last.op = "b3dm"
    /\ SectionBegin(1) = 28 /\ SectionEnd(1) = 48
    /\ Len(last.args.glb) % 8 = 3
    /\ LastTable # <<>>
    /\ Len(LastSelection) * Cardinality(DOMAIN LastTable[1].ints) = 1

(***************************************************************************)
(* The batch table of the last tile: its binary buffer as it stands on the *)
(* stream, and the descriptor that was dumped before it.                   *)
(***************************************************************************)
BatchBin == SectionBytes(BatchBinSection(last.op))
DescriptorOf(name) == JGet(last.build.batchTableJson, name)
DeclaredOffset(name) == JGet(DescriptorOf(name), K_byteOffset).v
HasBatchTable == IsTile /\ LastTable # <<>>
\* [lo, hi): the bytes an attribute's values take at its declared offset
ValueRange(name, size) ==
    [lo |-> DeclaredOffset(name), hi |-> DeclaredOffset(name) + size * Len(LastSelection)]
AttributeRanges ==
    { [name |-> nm, r |-> ValueRange(nm, Int32Size)] : nm \in DOMAIN LastTable[1].ints }
    \cup { [name |-> nm, r |-> ValueRange(nm, DoubleSize)] : nm \in DOMAIN LastTable[1].dbls }

(***************************************************************************)
(* C4: reading the batch binary at each integer attribute's declared       *)
(* byteOffset as consecutive 4-byte values, and at each double attribute's *)
(* as consecutive 8-byte values, yields the column's values at             *)
(* selection[0], selection[1], ... in that order; the value ranges of two  *)
(* attributes never overlap.                                               *)
(***************************************************************************)
C4_PackerRoundTrip ==
    HasBatchTable =>
        LET tbl == LastTable[1]
            sel == LastSelection
        IN  /\ \A a \in AttributeRanges : a.r.lo >= 0 /\ a.r.hi <= Len(BatchBin)
            /\ \A nm \in DOMAIN tbl.ints : \A i \in 1..Len(sel) :
                  ReadInt32(BatchBin, DeclaredOffset(nm) + Int32Size * (i - 1))
                      = tbl.ints[nm][sel[i] + 1]
            /\ \A nm \in DOMAIN tbl.dbls : \A i \in 1..Len(sel) :
                  ReadDouble(BatchBin, DeclaredOffset(nm) + DoubleSize * (i - 1))
                      = tbl.dbls[nm][sel[i] + 1]
            /\ \A a, b \in AttributeRanges :
                  a.name # b.name => a.r.hi <= b.r.lo \/ b.r.hi <= a.r.lo

C4_Witness ==
    /\ last.op = "i3dm"
    /\ last.args.sel = <<1, 0>>
    /\ Cardinality(DOMAIN last.args.ma.inst.ints) = 2
    /\ Cardinality(DOMAIN last.args.ma.inst.dbls) = 2
    /\ ReadInt32(BatchBin, 0) = 256
    /\ ReadInt32(BatchBin, 4) = 2147483647
    /\ ReadInt32(BatchBin, 8) = 305419896
    /\ ReadInt32(BatchBin, 12) = -1
    /\ ReadDouble(BatchBin, 16) = DblValueOf(2, 1)

(***************************************************************************)
(* C5: with k integer columns, d double columns and n selected instances,  *)
(* the i-th integer column in enumeration order is declared at byteOffset  *)
(* 4*n*i, the j-th double column at roundUp(4*n*k, 8) + 8*n*j, each as a   *)
(* SCALAR of componentType INT or DOUBLE; offsets do not decrease in       *)
(* declaration order, are multiples of 4 (of 8 for doubles), and the       *)
(* buffer is roundUp(4*n*k, 8) + 8*n*d bytes long, a multiple of 8.        *)
(***************************************************************************)
C5_PackerLayout ==
    HasBatchTable =>
        LET tbl == LastTable[1]
            n == Len(LastSelection)
            ints == SortKeys(DOMAIN tbl.ints)
            dbls == SortKeys(DOMAIN tbl.dbls)
            k == Len(ints)
            d == Len(dbls)
            intSection == 8 * ((4 * n * k + 7) \div 8)
            Declared(off, ct) ==
                JObj(  (K_byteOffset :> JNum(off)) @@ (K_type :> JStr(T_SCALAR))
                    @@ (K_componentType :> JStr(ct)) )
            order == [x \in 1..(k + d) |->
                         IF x <= k THEN DeclaredOffset(ints[x]) ELSE DeclaredOffset(dbls[x - k])]
        IN  /\ \A i \in 1..k : DescriptorOf(ints[i]) = Declared(4 * n * (i - 1), T_INT)
            /\ \A j \in 1..d :
                  DescriptorOf(dbls[j]) = Declared(intSection + 8 * n * (j - 1), T_DOUBLE)
            /\ \A x \in 1..(k + d - 1) : order[x] <= order[x + 1]
            /\ \A x \in 1..(k + d) : order[x] % (IF x <= k THEN 4 ELSE 8) = 0
            /\ Len(BatchBin) = intSection + 8 * n * d
            /\ Len(BatchBin) % 8 = 0
            /\ HeaderField(6) = Len(BatchBin)

C5_Witness ==
    /\ last.op = "i3dm"
    /\ Len(last.args.sel) = 1
    /\ Cardinality(DOMAIN last.args.ma.inst.ints) = 1
    /\ Cardinality(DOMAIN last.args.ma.inst.dbls) = 2
    /\ Len(BatchBin) = 24
    /\ DeclaredOffset(DblNames[1]) = 16

(***************************************************************************)
(* C6: writeToI3DM with an empty selection writes a tile whose             *)
(* featureTableBinByteLength and batchTableBinByteLength are 0, whose      *)
(* feature JSON declares INSTANCES_LENGTH 0, and whose batch table's       *)
(* array-valued entries, CNAM and every string attribute, are empty.       *)
(***************************************************************************)
C6_EmptySelection ==
    (last.op = "i3dm" /\ last.args.sel = <<>>) =>
        LET bt == last.build.batchTableJson
        IN  /\ HeaderField(4) = 0 /\ SectionLens[2] = 0
            /\ HeaderField(6) = 0 /\ SectionLens[4] = 0
            /\ JGet(last.build.featureTableJson, K_INSTANCES_LENGTH) = JNum(0)
            /\ JGet(bt, K_CNAM) = JArr(<<>>)
            /\ \A nm \in DOMAIN last.args.ma.inst.strs : JGet(bt, nm) = JArr(<<>>)
            /\ \A key \in DOMAIN bt.v : bt.v[key].t = "arr" => bt.v[key].v = <<>>

C6_Witness ==
    /\ last.op = "i3dm"
    /\ last.args.sel = <<>>
    /\ last.args.ma.inst.n = 2
    /\ DOMAIN last.args.ma.inst.strs # {}
    /\ DOMAIN last.args.ma.inst.ints # {}
    /\ HeaderField(6) = 0

(***************************************************************************)
(* The tileset document of the last call, read back node by node: every    *)
(* tile reached through non-null child slots, with the geometricError its  *)
(* JSON object carries, the number of children the object lists, and its   *)
(* depth below the root.                                                   *)
(***************************************************************************)
NonNull(children) == SelectSeq(children, LAMBDA c : c # <<>>)

RECURSIVE SerializedNodes(_, _, _)
SerializedNodes(tile, json, depth) ==
    LET kids == NonNull(tile.children)
        arr == IF JHas(json, K_children) THEN JGet(json, K_children).v ELSE <<>>
    IN  { [tile |-> tile, error |-> JGet(json, K_geometricError), listed |-> Len(arr),
           depth |-> depth] }
        \cup UNION { SerializedNodes(kids[i][1], arr[i], depth + 1) :
                       i \in 1..Min2(Len(kids), Len(arr)) }

TreeWritten == tilesetOut # <<>> /\ tilesetOut.op = "tileset" /\ tilesetOut.written
LastNodes == SerializedNodes(tilesetOut.args.root[1], JGet(tilesetOut.json, K_root), 0)
IsZero(error) == error.t = "flt" /\ error.v.m = 0

(***************************************************************************)
(* C7: every tile with no non-empty child, its child-slot list empty or    *)
(* holding only empty slots, is serialized with geometricError exactly 0.  *)
(***************************************************************************)
C7_ChildlessTileHasErrorZero ==
    TreeWritten =>
        \A x \in LastNodes : NonNull(x.tile.children) = <<>> => IsZero(x.error)

(***************************************************************************)
(* C8: every internal tile at depth d, the root at depth 0, is serialized  *)
(* with geometricError = 300000 / 2^d, and lists one child per non-empty   *)
(* slot.                                                                   *)
(***************************************************************************)
C8_ErrorHalvesPerLevel ==
    TreeWritten =>
        \A x \in LastNodes :
            NonNull(x.tile.children) # <<>> =>
                /\ x.error.t = "flt"
                /\ x.error.v.m * Pow(2, x.depth) = 300000 * Pow(2, x.error.v.e)
                /\ x.listed = Len(NonNull(x.tile.children))

C8_Witness ==
    /\ TreeWritten
    /\ \E x \in LastNodes :
          /\ x.depth = 1
          /\ NonNull(x.tile.children) # <<>>
          /\ x.error = JFlt(Flt(150000))
    /\ \E x \in LastNodes : x.depth = 2 /\ IsZero(x.error)

(***************************************************************************)
(* C9: the root bounding region combineTilesetJson emits is the union of   *)
(* the input regions: west, south and minimum height are the least over    *)
(* the inputs, east, north and maximum height the greatest; every          *)
(* permutation of the inputs gives the same region.                        *)
(***************************************************************************)
Least(S) == CHOOSE x \in S : \A y \in S : x <= y
Greatest(S) == CHOOSE x \in S : \A y \in S : x >= y
RootRegionOf(json) ==
    LET arr == JGet(JGet(JGet(json, K_root), K_boundingVolume), K_region).v
    IN  [i \in 1..Len(arr) |-> arr[i].v]
Combined == tilesetOut # <<>> /\ tilesetOut.op = "combine"

C9_RootRegionIsUnion ==
    Combined =>
        LET a == tilesetOut.args
            n == Len(a.regions)
            Over(field) == { a.regions[i][field] : i \in 1..n }
        IN  /\ RootRegionOf(tilesetOut.json)
                 = << Flt(Least(Over("west"))), Flt(Least(Over("south"))),
                      Flt(Greatest(Over("east"))), Flt(Greatest(Over("north"))),
                      Flt(Least(Over("minH"))), Flt(Greatest(Over("maxH"))) >>
            /\ \A p \in Permutations(1..n) :
                  RootRegionOf(combineTilesetJson([i \in 1..n |-> a.paths[p[i]]],
                                                  [i \in 1..n |-> a.regions[p[i]]],
                                                  a.use3dTilesNext).json)
                      = RootRegionOf(tilesetOut.json)

C9_Witness ==
    /\ Combined
    /\ tilesetOut.args.regions = << Region(0, 0, 1, 1, 0, 1), Region(2, 2, 3, 3, 1, 4) >>
    /\ SubSeq(RootRegionOf(tilesetOut.json), 1, 4) = << Flt(0), Flt(0), Flt(3), Flt(3) >>
    /\ fs = Dump(tilesetOut.json) \o <<10>>

(***************************************************************************)
(* C10: after writeToCMPT with N sub-tiles returns, the header stored at   *)
(* the composite's start holds magic 'cmpt', version 1, tile count N and   *)
(* byteLength = header size + the sum of the N lengths the callback        *)
(* returned; with N = 0 the callback was never invoked and nothing but the *)
(* header was written.                                                     *)
(***************************************************************************)
C10_CompositeHeaderAtStart ==
    last.op = "cmpt" =>
        LET at == last.start
            N == last.args.numOfTiles
        IN  /\ SubSeq(fs, at + 1, at + 4) = MagicCmpt
            /\ ReadU32(fs, at + 4) = 1
            /\ ReadU32(fs, at + 8) = CmptHeaderSize + SumSeq(last.args.returned)
            /\ ReadU32(fs, at + 12) = N
            /\ Len(last.args.returned) = N
            /\ N = 0 => Len(fs) = at + CmptHeaderSize

(***************************************************************************)
(* C11: composites nest.  When a composite returns, whatever its nesting   *)
(* depth, the header it rewrote lies at its own start offset, so no byte   *)
(* of another header or of an earlier sub-tile is overwritten, and, its    *)
(* callbacks having returned the bytes they wrote, the byteLength stored   *)
(* at its start is the number of bytes from its start to its end.          *)
(***************************************************************************)
C11_NestedCompositeRewritesOwnHeader ==
    last.op = "cmpt" =>
        LET at == last.start
            extent == last.args.end - at
        IN  /\ last.log = <<[at |-> at, len |-> CmptHeaderSize]>>
            /\ CmptHeaderSize + SumSeq(last.args.returned) = extent =>
                  ReadU32(fs, at + 8) = extent

(***************************************************************************)
(* Output-stream failure.  None of the writers tests the stream: a write   *)
(* that fails sets the stream's failure state, every later write and seek  *)
(* on it is a no-op, and the function runs to its end.  Only a stream      *)
(* whose caller set exceptions(badbit | failbit) throws out of the write.  *)
(* k is the write that fails, part the bytes of it that still got out.     *)
(***************************************************************************)
\* the stream after the writes before the k-th and part bytes of the k-th
FsWriteUntilFailure(s, chunks, k, part) ==
    FsWrite(FsWriteAll(s, SubSeq(chunks, 1, k - 1)), SubSeq(chunks[k], 1, part))

\* how much of a failing write may reach the file
PartsOf(chunk) == {0, Len(chunk) \div 2}

\* the stream state after a failed write, and how the running call ends
StreamFailed(throws) ==
    [failed |-> TRUE, throws |-> throws, outcome |-> IF throws THEN "threw" ELSE "returned"]

IoI3dmArgs ==
    { [uri |-> u, ma |-> [inst |-> MkTable(1, k, d, 0), center |-> c], sel |-> <<0>>] :
        u \in Uris, c \in Centers, k \in 0..1, d \in 0..1 }

IoB3dmArgs ==
    { [glb |-> GlbBytes(g), attribs |-> a] :
        g \in {0, 3}, a \in {<<>>, <<MkTable(1, 1, 1, 0)>>} }

\* the writes of a tile writer on a stream that fails at the k-th of them
TileWriteFails(op, b, chunks, ret, args) ==
    \E k \in 1..Len(chunks), throws \in BOOLEAN :
        \E part \in PartsOf(chunks[k]) :
            LET s == FsWriteUntilFailure(Stream, chunks, k, part)
            IN  /\ fs' = s.data
                /\ pos' = s.pos
                /\ io' = StreamFailed(throws)
                /\ last' = [op |-> op, start |-> pos, ret |-> IF throws THEN 0 ELSE ret,
                            build |-> b, log |-> s.log, args |-> args]

\* writeToI3DM, lines 236-245, on a stream that fails
FailingWriteToI3DM ==
    /\ FreshStream
    /\ \E a \in IoI3dmArgs :
         LET b == I3dmBuild(a.uri, a.ma, a.sel)
         IN  TileWriteFails("i3dm", b, I3dmWrites(b), I3dmReturn(b), a)
    /\ phase' = "closed"
    /\ UNCHANGED <<stack, ncalls, tilesetOut, parsed, meta>>

\* writeToB3DM, lines 292-298, on a stream that fails
FailingWriteToB3DM ==
    /\ FreshStream
    /\ \E a \in IoB3dmArgs :
         LET b == B3dmBuild(a.glb, a.attribs)
         IN  TileWriteFails("b3dm", b, B3dmWrites(b), 0, a)
    /\ phase' = "closed"
    /\ UNCHANGED <<stack, ncalls, tilesetOut, parsed, meta>>

\* writeToCMPT of no sub-tiles, lines 335-341: the header, the seek, the header
FailingWriteToCMPT ==
    /\ FreshStream
    /\ LET header == CmptInitialHeader(0)
           bytes == CmptHeaderBytes(header)
       IN  TileWriteFails("cmpt", [header |-> header], <<bytes, bytes>>, 0,
                          [numOfTiles |-> 0, returned |-> <<>>, end |-> pos])
    /\ phase' = "closed"
    /\ UNCHANGED <<stack, ncalls, tilesetOut, parsed, meta>>

\* fs << tilesetJson << std::endl of lines 74 and 92 on a stream that fails
TilesetWriteFails(op, json, args) ==
    \E throws \in BOOLEAN :
        \E part \in PartsOf(Dump(json)) :
            LET s == FsWriteUntilFailure(Stream, <<Dump(json) \o <<10>>>>, 1, part)
            IN  /\ fs' = s.data
                /\ pos' = s.pos
                /\ io' = StreamFailed(throws)
                /\ tilesetOut' = [op |-> op, json |-> json, written |-> FALSE, args |-> args]

FailingWriteToTilesetJson ==
    /\ FreshStream
    /\ \E root \in { r \in Roots : r # <<>> }, replace \in BOOLEAN :
         TilesetWriteFails("tileset", writeToTilesetJson(root, replace).json,
                           [root |-> root, replace |-> replace])
    /\ phase' = "closed"
    /\ UNCHANGED <<stack, ncalls, last, parsed, meta>>

FailingCombineTilesetJson ==
    /\ FreshStream
    /\ \E regions \in [1..1 -> Regions], use3dTilesNext \in BOOLEAN :
         LET paths == <<PathOf(1)>>
         IN  TilesetWriteFails("combine",
                               combineTilesetJson(paths, regions, use3dTilesNext).json,
                               [paths |-> paths, regions |-> regions,
                                use3dTilesNext |-> use3dTilesNext])
    /\ phase' = "closed"
    /\ UNCHANGED <<stack, ncalls, last, parsed, meta>>

\* the caller closes the failed file and opens another
NextFileAfterFailure ==
    /\ phase = "closed"
    /\ fs' = <<>>
    /\ pos' = 0
    /\ last' = NoCall
    /\ tilesetOut' = <<>>
    /\ io' = StreamGood
    /\ phase' = "open"
    /\ UNCHANGED <<stack, ncalls, parsed, meta>>

NextIO ==
    \/ FailingWriteToI3DM
    \/ FailingWriteToB3DM
    \/ FailingWriteToCMPT
    \/ FailingWriteToTilesetJson
    \/ FailingCombineTilesetJson
    \/ NextFileAfterFailure

SpecIO == Init /\ [][NextIO]_vars

(***************************************************************************)
(* C12: a write to the output stream that fails is reported to the caller  *)
(* as an error: the call does not end as a call that succeeded does, and   *)
(* writeToI3DM returns no byte length for bytes that were not written.     *)
(***************************************************************************)
C12_WriteFailureIsReported ==
    io.failed =>
        /\ io.outcome = "threw"
        /\ (last.op = "i3dm" /\ io.outcome = "returned") => last.ret <= pos - last.start

(***************************************************************************)
(* C13: writeToB3DM without an attribute table writes a feature JSON       *)
(* declaring BATCH_LENGTH 0 and no batch table: both batch lengths in the  *)
(* header are 0 and no batch byte is written.  With a table BATCH_LENGTH   *)
(* is the table's instance count and the batch table holds every instance  *)
(* of the table in index order.  featureTableBinByteLength is 0 always.    *)
(***************************************************************************)
\* the text {"BATCH_LENGTH":n}
BatchLengthJson(n) == T_BatchLengthPrefix \o ToStr(n) \o <<125>>
StartsWith(bytes, prefix) ==
    Len(bytes) >= Len(prefix) /\ SubSeq(bytes, 1, Len(prefix)) = prefix

C13_B3dmBatchTable ==
    last.op = "b3dm" =>
        /\ HeaderField(4) = 0
        /\ IF last.args.attribs = <<>>
           THEN /\ StartsWith(SectionBytes(1), BatchLengthJson(0))
                /\ HeaderField(5) = 0 /\ SectionLens[2] = 0
                /\ HeaderField(6) = 0 /\ SectionLens[3] = 0
           ELSE LET tbl == last.args.attribs[1]
                    bt == last.build.batchTableJson
                IN  /\ StartsWith(SectionBytes(1), BatchLengthJson(tbl.n))
                    /\ StartsWith(SectionBytes(2), Dump(bt))
                    /\ JGet(bt, K_CNAM) = JArr([i \in 1..tbl.n |-> JStr(tbl.CNAMs[i])])
                    /\ \A nm \in DOMAIN tbl.strs :
                          JGet(bt, nm) = JArr([i \in 1..tbl.n |-> JStr(tbl.strs[nm][i])])
                    /\ \A nm \in DOMAIN tbl.ints : \A i \in 1..tbl.n :
                          ReadInt32(BatchBin, DeclaredOffset(nm) + Int32Size * (i - 1))
                              = tbl.ints[nm][i]
                    /\ \A nm \in DOMAIN tbl.dbls : \A i \in 1..tbl.n :
                          ReadDouble(BatchBin, DeclaredOffset(nm) + DoubleSize * (i - 1))
                              = tbl.dbls[nm][i]

C13_Witness ==
    /\ last.op = "b3dm"
    /\ last.args.attribs = <<>>
    /\ Len(last.args.glb) = 3
    /\ SectionLens = <<20, 0, 0, 8>>
    /\ pos = 56

(***************************************************************************)
(* C18: both tileset writers emit a top-level geometricError equal to the  *)
(* root's.  In combineTilesetJson both, and every child's, are 300000.  In *)
(* writeToTilesetJson the value is the serialized root's: 300000 when the  *)
(* root's child list is non-empty, 0 when it is empty; an absent root      *)
(* leaves the stream untouched.                                            *)
(***************************************************************************)
TopError == JGet(tilesetOut.json, K_geometricError)
RootError == JGet(JGet(tilesetOut.json, K_root), K_geometricError)
IsMaxError(error) == error.t = "flt" /\ error.v.e = 0 /\ error.v.m = 300000

C18_TopLevelErrorIsRootError ==
    tilesetOut # <<>> =>
        IF tilesetOut.op = "combine"
        THEN LET children == JGet(JGet(tilesetOut.json, K_root), K_children).v
             IN  /\ IsMaxError(TopError) /\ IsMaxError(RootError)
                 /\ Len(children) = Len(tilesetOut.args.regions)
                 /\ \A i \in 1..Len(children) : IsMaxError(JGet(children[i], K_geometricError))
                 /\ fs = Dump(tilesetOut.json) \o <<10>>
        ELSE IF tilesetOut.args.root = <<>>
        THEN ~tilesetOut.written /\ fs = <<>> /\ pos = 0
        ELSE /\ tilesetOut.written
             /\ TopError = RootError
             /\ IF tilesetOut.args.root[1].children # <<>>
                THEN IsMaxError(RootError) ELSE IsZero(RootError)
             /\ fs = Dump(tilesetOut.json) \o <<10>>

C18_Witness ==
    /\ TreeWritten
    /\ tilesetOut.args.root[1].children = <<>>
    /\ IsZero(TopError) /\ IsZero(RootError)
    /\ fs # <<>>

(***************************************************************************)
(* C19: the two packers agree.  For a table of n instances the batch table *)
(* writeToI3DM builds with the selection 0, 1, ..., n-1 is the batch table *)
(* createBatchTable builds: the same descriptor, CNAM and string arrays,   *)
(* the same padded JSON text and the same binary bytes.                    *)
(***************************************************************************)
IdentitySelection(n) == [i \in 1..n |-> i - 1]

LogBytes(data, entry) == SubSeq(data, entry.at + 1, entry.at + entry.len)

\* every write of log begins where the one before it ended, the first at from
Contiguous(log, from) ==
    \A k \in 1..Len(log) :
        log[k].at = from + SumSeq([j \in 1..(k - 1) |-> log[j].len])

WrittenInOrder(data, log, expected) ==
    /\ Len(log) = Len(expected)
    /\ \A k \in 1..Len(log) :
          /\ log[k].len = Len(expected[k])
          /\ LogBytes(data, log[k]) = expected[k]

C16_Step ==
    LET log == last'.log
        b == last'.build
        depth == Len(stack)
    IN  /\ last'.op \in {"i3dm", "b3dm", "raw", "enter"} =>
              /\ log # <<>>
              /\ Contiguous(log, pos)
              /\ pos' = pos + SumSeq([j \in 1..Len(log) |-> log[j].len])
        /\ last'.op = "i3dm" =>
              WrittenInOrder(fs', log,
                  << I3dmHeaderBytes(b.header), b.featureTableString,
                     b.featureTableBuffer, b.batchTableString,
                     b.batchTableBuffer, b.payload >>)
        /\ last'.op = "b3dm" =>
              WrittenInOrder(fs', log,
                  << B3dmHeaderBytes(b.header), b.featureTableString,
                     b.batchTableString, b.batchTableBuffer, b.payload >>)
        /\ Len(stack') = depth + 1 =>
              /\ last'.op = "enter"
              /\ stack'[depth + 1].i = 0
              /\ WrittenInOrder(fs', log,
                    << CmptHeaderBytes(CmptInitialHeader(stack'[depth + 1].numOfTiles)) >>)
        /\ (Len(stack') = depth /\ depth > 0) =>
              /\ last'.op \in {"i3dm", "b3dm", "raw"}
              /\ Top.i < Top.numOfTiles
              /\ stack'[depth].i = Top.i + 1
              /\ Len(stack'[depth].returned) = Top.i + 1
        /\ Len(stack') = depth - 1 =>
              /\ last'.op = "cmpt"
              /\ Top.i = Top.numOfTiles
              /\ Len(Top.returned) = Top.numOfTiles
              /\ Len(log) = 1
              /\ log[1].len = CmptHeaderSize
              /\ pos' = log[1].at + CmptHeaderSize
              /\ depth > 1 => stack'[depth - 1].i = stack[depth - 1].i + 1

C16_WriteOrder == [][C16_Step]_vars

C16_Witness ==
    /\ last.op = "cmpt"
    /\ stack = <<>>
    /\ last.args.numOfTiles = 2
    /\ Len(last.args.returned) = 2
    /\ Len(last.log) = 1
    /\ last.args.end > CmptHeaderSize
    /\ pos = CmptHeaderSize

(***************************************************************************)
(* ParseJsonAsValue, lines 629-675.  Beside the node kinds above a node is *)
(* a boolean, a node of a kind the switch does not name (JOther), or an    *)
(* integer outside what JNum holds: [t |-> "int" or "uint", v |-> [neg,    *)
(* mag]], the number -mag or mag, mag its magnitude as four 16-bit limbs,  *)
(* least significant first.                                                *)
(***************************************************************************)
JBool(b) == [v |-> b, t |-> "bool"]
JOther(kind) == [v |-> 0, t |-> kind]
JInt(neg, mag) == [v |-> [neg |-> neg, mag |-> mag], t |-> "int"]
JUint(mag) == [v |-> [neg |-> FALSE, mag |-> mag], t |-> "uint"]

LimbBase == 65536
ZeroLimbs == <<0, 0, 0, 0>>

\* the limbs of limbs + carry, modulo 2^64
RECURSIVE AddCarry(_, _)
AddCarry(limbs, carry) ==
    IF limbs = <<>> THEN <<>>
    ELSE <<(Head(limbs) + carry) % LimbBase>>
         \o AddCarry(Tail(limbs), (Head(limbs) + carry) \div LimbBase)

\* the two's complement of a magnitude: every limb inverted, plus one
Negated(mag) == AddCarry([k \in 1..Len(mag) |-> (LimbBase - 1) - mag[k]], 1)

\* o.get<int64_t>(): the 64-bit image of an integer node, as limbs
GetInt64(o) ==
    CASE o.t = "num" -> <<o.v % LimbBase, o.v \div LimbBase, 0, 0>>
      [] o.v.neg -> Negated(o.v.mag)
      [] OTHER -> o.v.mag

\* a narrowing that clamps to the int range instead
StaticCastIntSaturating(limbs) ==
    IF limbs[4] >= LimbBase \div 2 THEN
        IF limbs[4] = LimbBase - 1 /\ limbs[3] = LimbBase - 1 /\ limbs[2] >= LimbBase \div 2
        THEN (limbs[2] - LimbBase) * LimbBase + limbs[1]
        ELSE (-2147483647) - 1
    ELSE
        IF limbs[4] = 0 /\ limbs[3] = 0 /\ limbs[2] < LimbBase \div 2
        THEN limbs[2] * LimbBase + limbs[1]
        ELSE 2147483647

\* static_cast<int>(x): the low 32 bits of x read as two's complement without
\* clamping
StaticCastInt(limbs) ==
    IF limbs[2] >= LimbBase \div 2
    THEN (limbs[2] - LimbBase) * LimbBase + limbs[1]
    ELSE limbs[2] * LimbBase + limbs[1]

\* line 641
ValueOfObject(value_object) ==
    IF DOMAIN value_object # {} THEN VObj(value_object) ELSE VNull

\* line 651 without the test of the size
ValueOfArrayKeepingEmpty(value_array) == VArr(value_array)

\* line 651
ValueOfArray(value_array) ==
    IF Len(value_array) > 0 THEN VArr(value_array) ELSE VNull

\* the local val at line 672
RECURSIVE ParseVal(_)
RECURSIVE ParseArrayEntries(_)
ParseVal(o) ==
    CASE o.t = "obj" ->
           LET kept == {key \in DOMAIN o.v : ParseVal(o.v[key]).t # "null"}
           IN  ValueOfObject([key \in kept |-> ParseVal(o.v[key])])
      [] o.t = "arr" -> ValueOfArray(ParseArrayEntries(o.v))
      [] o.t = "str" -> VStr(o.v)
      [] o.t = "bool" -> VBool(o.v)
      [] o.t \in {"num", "int", "uint"} -> VInt(StaticCastInt(GetInt64(o)))
      [] o.t \in {"flt", "raw"} -> VReal(o.v)
      [] OTHER -> VNull
\* lines 643-650: the entries of an array that are not of NULL_TYPE, in order
ParseArrayEntries(a) ==
    IF a = <<>> THEN <<>>
    ELSE LET entry == ParseVal(Head(a))
         IN  (IF entry.t # "null" THEN <<entry>> ELSE <<>>) \o ParseArrayEntries(Tail(a))

\* bool ParseJsonAsValue(ret, o) with ret not null: what *ret holds and the result
ParseJsonAsValue(o) ==
    LET val == ParseVal(o)
    IN  [val |-> val, ret |-> val.t # "null"]

MaxNesting == 2

K_a == <<97>>
K_b == <<98>>

\* the nodes without entries
LeafIndexes == 1..9
ParseLeaf(l) ==
    CASE l = 1 -> JNull
      [] l = 2 -> JOther("discarded")
      [] l = 3 -> JOther("binary")
      [] l = 4 -> JBool(TRUE)
      [] l = 5 -> JStr(K_a)
      [] l = 6 -> JNum(7)
      [] l = 7 -> JFlt(Flt(3))
      [] l = 8 -> JArr(<<>>)
      [] OTHER -> JObj(<<>>)

\* x inside one more container: the containers a node is wrapped in
Wrappings(x) ==
    << JArr(<<x>>), JArr(<<JNull, x>>), JArr(<<x, JNum(1)>>),
       JObj(K_a :> x), JObj((K_a :> x) @@ (K_b :> JNull)) >>

\* the tree of a shape: a leaf and the containers around it, innermost first
RECURSIVE ParseTree(_, _)
ParseTree(leaf, around) ==
    IF around = <<>> THEN leaf
    ELSE ParseTree(Wrappings(leaf)[Head(around)], Tail(around))

TreeShapes ==
    { [leaf |-> l, around |-> w] :
        l \in LeafIndexes,
        w \in UNION { [1..depth -> 1..Len(Wrappings(JNull))] : depth \in 0..MaxNesting } }

Limbs == {0, 1, 32767, 32768, 65535}
Magnitudes == { <<a, b, c, d>> : a \in Limbs, b \in Limbs, c \in {0, 1, 65535}, d \in {0, 32767, 32768, 65535} }

\* the integer nodes: an int64_t holds -2^63 .. 2^63 - 1, a uint64_t 0 .. 2^64 - 1
IntegerNodes ==
    { JUint(m) : m \in Magnitudes }
    \cup { JInt(FALSE, m) : m \in {x \in Magnitudes : x[4] < 32768} }
    \cup { JInt(TRUE, m) : m \in {x \in Magnitudes :
              /\ x # ZeroLimbs
              /\ x[4] < 32768 \/ x = <<0, 0, 0, 32768>>} }

\* one call, on the node o
Parsed(o) ==
    LET r == ParseJsonAsValue(o)
    IN  /\ ~parsed.called
        /\ parsed' = [o |-> o, called |-> TRUE, val |-> r.val, ret |-> r.ret]
        /\ UNCHANGED <<fs, pos, stack, ncalls, last, phase, tilesetOut, io, meta>>

ParseJsonTree ==
    \E shape \in TreeShapes : Parsed(ParseTree(ParseLeaf(shape.leaf), shape.around))

ParseInteger == \E o \in IntegerNodes : Parsed(o)

\* the caller has taken the value
ParseDone ==
    /\ parsed.called
    /\ parsed' = NoParse
    /\ UNCHANGED <<fs, pos, stack, ncalls, last, phase, tilesetOut, io, meta>>

NextParse ==
    \/ ParseJsonTree
    \/ ParseInteger
    \/ ParseDone

SpecParse == Init /\ [][NextParse]_vars

(***************************************************************************)
(* C17 as stated: an empty object or array, a null and a node of an        *)
(* unrecognized kind translate to the absent value, every non-empty object *)
(* or array translates to a container of the same kind, and the result is  *)
(* true exactly when the translated value is not absent.                   *)
(***************************************************************************)
IsContainer(o) == o.t \in {"arr", "obj"}
EntryKeys(o) == IF o.t = "arr" THEN 1..Len(o.v) ELSE DOMAIN o.v
IsEmptyContainer(o) == IsContainer(o) /\ EntryKeys(o) = {}

C17_NonEmptyContainerKeepsKind ==
    parsed.called =>
        /\ IsEmptyContainer(parsed.o) => parsed.val.t = "null"
        /\ parsed.o.t \in {"null", "discarded", "binary"} => parsed.val.t = "null"
        /\ (IsContainer(parsed.o) /\ ~IsEmptyContainer(parsed.o)) => parsed.val.t = parsed.o.t
        /\ parsed.ret <=> parsed.val.t # "null"

(***************************************************************************)
(* C17, amended: a node vanishes when it is a null, of an unrecognized     *)
(* kind, or an object or array all of whose entries vanish (an empty one   *)
(* included).  A node translates to the absent value exactly when it       *)
(* vanishes; an object or array that does not vanish translates to a       *)
(* container of the same kind that holds one entry per entry that does not *)
(* vanish; the result is true exactly when the translated value is not     *)
(* absent.                                                                 *)
(***************************************************************************)
RECURSIVE Vanishes(_)
Vanishes(o) ==
    \/ o.t \in {"null", "discarded", "binary"}
    \/ IsContainer(o) /\ \A k \in EntryKeys(o) : Vanishes(o.v[k])

SurvivingEntries(o) ==
    Cardinality({k \in EntryKeys(o) : ~Vanishes(o.v[k])})

SizeOfValue(val) ==
    IF val.t = "arr" THEN Len(val.v) ELSE Cardinality(DOMAIN val.v)

C17_ContainerKeepsKindUnlessAllEntriesVanish ==
    parsed.called =>
        /\ Vanishes(parsed.o) <=> parsed.val.t = "null"
        /\ (IsContainer(parsed.o) /\ ~Vanishes(parsed.o)) =>
              /\ parsed.val.t = parsed.o.t
              /\ SizeOfValue(parsed.val) = SurvivingEntries(parsed.o)
        /\ parsed.ret <=> parsed.val.t # "null"

C17_Witness ==
    /\ parsed.called
    /\ parsed.o.t = "obj"
    /\ DOMAIN parsed.o.v = {K_a, K_b}
    /\ parsed.o.v[K_a].t = "arr"
    /\ parsed.o.v[K_a].v # <<>>
    /\ parsed.val.t = "null"
    /\ ~parsed.ret

(***************************************************************************)
(* C20: an integer node, signed or unsigned, translates to the 32-bit      *)
(* signed integer congruent to it modulo 2^32: to the number itself when   *)
(* that lies in -2^31 .. 2^31 - 1, and otherwise to the number of that     *)
(* range that differs from it by a multiple of 2^32.                       *)
(***************************************************************************)
IsIntegerNode(o) == o.t \in {"int", "uint"}

\* the number of the node lies in -2^31 .. 2^31 - 1
InInt32Range(o) ==
    LET mag == o.v.mag
    IN  /\ mag[3] = 0
        /\ mag[4] = 0
        /\ \/ mag[2] < 32768
           \/ o.v.neg /\ mag[2] = 32768 /\ mag[1] = 0

\* the number of a node in that range
SmallNumber(o) ==
    IF o.v.neg THEN (-(o.v.mag[2])) * LimbBase - o.v.mag[1]
    ELSE o.v.mag[2] * LimbBase + o.v.mag[1]

\* r and the number of the node differ by a multiple of 2^32
CongruentMod2To32(r, o) ==
    LET r0 == r % LimbBase
        r1 == ((r - r0) \div LimbBase) % LimbBase
        mag == o.v.mag
    IN  IF o.v.neg
        THEN /\ (r0 + mag[1]) % LimbBase = 0
             /\ (r1 + mag[2] + ((r0 + mag[1]) \div LimbBase)) % LimbBase = 0
        ELSE r0 = mag[1] /\ r1 = mag[2]

C20_IntegerNarrowedModulo2To32 ==
    (parsed.called /\ IsIntegerNode(parsed.o)) =>
        /\ parsed.val.t = "int"
        /\ parsed.ret
        /\ CongruentMod2To32(parsed.val.v, parsed.o)
        /\ InInt32Range(parsed.o) => parsed.val.v = SmallNumber(parsed.o)

C20_Witness ==
    /\ parsed.called
    /\ parsed.o.t = "uint"
    /\ parsed.o.v.mag = <<0, 32768, 0, 0>>
    /\ ~InInt32Range(parsed.o)
    /\ parsed.val = VInt((-2147483647) - 1)
    /\ parsed.ret

(***************************************************************************)
(* createFeatureMetadataClasses, lines 396-588.  gltf is the               *)
(* tinygltf::Model: a mesh stands for its primitives[0], with its          *)
(* attributes and extensions maps; an accessor is its bufferView; a buffer *)
(* is its data.  meta holds the running call: pc is where it stands,       *)
(* entry the model as it was passed in, i the mesh loop's index.           *)
(***************************************************************************)
K_BATCHID == <<95, 66, 65, 84, 67, 72, 73, 68>>
K_FEATURE_ID_0 == <<95, 70, 69, 65, 84, 85, 82, 69, 95, 73, 68, 95, 48>>
K_EXT_feature_metadata ==
    <<69, 88, 84, 95, 102, 101, 97, 116, 117, 114, 101, 95, 109, 101, 116, 97, 100, 97, 116,
      97>>
CDB_CLASS_NAME == <<67, 68, 66, 67, 108, 97, 115, 115>>
CDB_FEATURE_TABLE_NAME == <<67, 68, 66, 70, 101, 97, 116, 117, 114, 101, 84, 97, 98, 108, 101>>
K_classes == <<99, 108, 97, 115, 115, 101, 115>>
K_properties == <<112, 114, 111, 112, 101, 114, 116, 105, 101, 115>>
K_name == <<110, 97, 109, 101>>
K_description == <<100, 101, 115, 99, 114, 105, 112, 116, 105, 111, 110>>
K_featureTables == <<102, 101, 97, 116, 117, 114, 101, 84, 97, 98, 108, 101, 115>>
K_class == <<99, 108, 97, 115, 115>>
K_elementCount == <<101, 108, 101, 109, 101, 110, 116, 67, 111, 117, 110, 116>>
K_bufferView == <<98, 117, 102, 102, 101, 114, 86, 105, 101, 119>>
T_INT32 == <<73, 78, 84, 51, 50>>
T_FLOAT64 == <<70, 76, 79, 65, 84, 54, 52>>
K_featureIdAttributes ==
    <<102, 101, 97, 116, 117, 114, 101, 73, 100, 65, 116, 116, 114, 105, 98, 117, 116, 101,
      115>>
K_featureTable == <<102, 101, 97, 116, 117, 114, 101, 84, 97, 98, 108, 101>>
K_featureIds == <<102, 101, 97, 116, 117, 114, 101, 73, 100, 115>>
K_attribute == <<97, 116, 116, 114, 105, 98, 117, 116, 101>>

\* nameMap[property], lines 422-440; operator[] gives "" for a code it has not
NameMap(property) ==
    CASE property = <<82, 84, 65, 73>> -> \* "RTAI"
           <<82, 101, 108, 97, 116, 105, 118, 101, 32, 84, 97, 99, 116, 105, 99, 97, 108, 32, 73, 109, 112, 111, 114, 116, 97, 110, 99, 101>>
      [] property = <<67, 77, 73, 88>> -> \* "CMIX"
           <<67, 111, 109, 112, 111, 115, 105, 116, 101, 32, 77, 97, 116, 101, 114, 105, 97, 108, 32, 73, 110, 100, 101, 120>>
      [] property = <<70, 83, 67>> -> \* "FSC"
           <<70, 101, 97, 116, 117, 114, 101, 32, 67, 108, 97, 115, 115, 105, 102, 105, 99, 97, 116, 105, 111, 110, 32, 67, 111, 100, 101>>
      [] property = <<72, 71, 84>> -> \* "HGT"
           <<72, 101, 105, 103, 104, 116, 32, 97, 98, 111, 118, 101, 32, 115, 117, 114, 102, 97, 99, 101, 32, 108, 101, 118, 101, 108>>
      [] property = <<65, 79, 49>> -> \* "AO1"
           <<65, 110, 103, 108, 101, 32, 111, 102, 32, 79, 114, 105, 101, 110, 116, 97, 116, 105, 111, 110>>
      [] property = <<66, 66, 72>> -> \* "BBH"
           <<66, 111, 117, 110, 100, 105, 110, 103, 32, 66, 111, 120, 32, 72, 101, 105, 103, 104, 116>>
      [] OTHER -> <<>>

\* strMap[property], lines 402-420: the opening words stand for each text
StrMap(property) ==
    CASE property = <<82, 84, 65, 73>> -> \* "RTAI"
           <<80, 114, 111, 118, 105, 100, 101, 115, 32, 116, 104, 101, 32, 82, 101, 108, 97, 116, 105, 118, 101>>
      [] property = <<67, 77, 73, 88>> -> \* "CMIX"
           <<73, 110, 100, 101, 120, 32, 105, 110, 116, 111, 32, 116, 104, 101>>
      [] property = <<70, 83, 67>> -> \* "FSC"
           <<84, 104, 105, 115, 32, 99, 111, 100, 101, 44, 32, 105, 110>>
      [] property = <<72, 71, 84>> -> \* "HGT"
           <<68, 105, 115, 116, 97, 110, 99, 101, 32, 109, 101, 97, 115, 117, 114, 101, 100, 32, 102, 114, 111, 109>>
      [] property = <<65, 79, 49>> -> \* "AO1"
           <<84, 104, 101, 32, 97, 110, 103, 117, 108, 97, 114, 32, 100, 105, 115, 116, 97, 110, 99, 101>>
      [] property = <<66, 66, 72>> -> \* "BBH"
           <<84, 104, 101, 32, 72, 101, 105, 103, 104, 116, 47, 87, 105, 100, 116, 104, 47, 76, 101, 110, 103, 116, 104, 32, 111, 102>>
      [] OTHER -> <<>>

\* json[k1][k2]...[kn] = value: operator[] takes an object or a null, which it
\* turns into an object, and creates the member it does not find
RECURSIVE JPutPath(_, _, _)
JPutPath(j, path, value) ==
    CASE j.t \in {"obj", "null"} ->
        IF Len(path) = 1 THEN JPut(j, path[1], value)
        ELSE JPut(j, Head(path), JPutPath(JGet(j, Head(path)), Tail(path), value))

\* std::map::insert: the key keeps its value if it has one
MapInsert(map, key, value) ==
    [k \in DOMAIN map \cup {key} |-> IF k \in DOMAIN map THEN map[k] ELSE value]

\* std::map::extract
MapExtract(map, key) == [k \in DOMAIN map \ {key} |-> map[k]]

\* std::map::operator[] read: a missing int is value-initialized
MapAt(map, key) == IF key \in DOMAIN map THEN map[key] ELSE 0

\* lines 472 and 499 with the index of the last buffer there is
MetadataBufferIndexOfLastBuffer(gltf) == Len(gltf.buffers) - 1

\* lines 472 and 499: bufferView.buffer
MetadataBufferIndex(gltf) == Len(gltf.buffers)

\* lines 452-454: _BATCHID replaced by _FEATURE_ID_0
ReplaceBatchId(gltf, i) ==
    LET attributes == gltf.meshes[i + 1].attributes
        batchIdAccessorIndex == MapAt(attributes, K_BATCHID)
    IN  [gltf EXCEPT !.meshes[i + 1].attributes =
            MapInsert(MapExtract(attributes, K_BATCHID), K_FEATURE_ID_0,
                      gltf.accessors[batchIdAccessorIndex + 1].bufferView)]

\* lines 462-485 and 489-512, one column: st = [gltf, data, ext]
AddProperty(st, property, bytes, type, instanceCount) ==
    LET propertyBufferLength == Len(bytes)
        originalBufferLength == Len(st.data)
        bufferView == [ buffer     |-> MetadataBufferIndex(st.gltf),
                        byteOffset |-> originalBufferLength,
                        byteLength |-> propertyBufferLength ]
        gltf == [st.gltf EXCEPT !.bufferViews = Append(@, bufferView)]
        class == <<K_classes, CDB_CLASS_NAME, K_properties, property>>
        table == <<K_featureTables, CDB_FEATURE_TABLE_NAME>>
        e1 == JPutPath(st.ext, class \o <<K_name>>, JStr(NameMap(property)))
        e2 == JPutPath(e1, class \o <<K_description>>, JStr(StrMap(property)))
        e3 == JPutPath(e2, class \o <<K_type>>, JStr(type))
        e4 == JPutPath(e3, table \o <<K_class>>, JStr(CDB_CLASS_NAME))
        e5 == JPutPath(e4, table \o <<K_elementCount>>, JNum(instanceCount))
        e6 == JPutPath(e5, table \o <<K_properties, property, K_bufferView>>,
                       JNum(Len(gltf.bufferViews) - 1))
    IN  [gltf |-> gltf, data |-> st.data \o bytes, ext |-> e6]

\* lines 461-486
RECURSIVE IntegerProperties(_, _, _)
IntegerProperties(st, names, tbl) ==
    IF names = <<>> THEN st
    ELSE IntegerProperties(
             AddProperty(st, Head(names),
                         SubSeq(IntColumnBytes(tbl.ints[Head(names)]), 1, Int32Size * tbl.n),
                         T_INT32, tbl.n),
             Tail(names), tbl)

\* lines 488-514
RECURSIVE DoubleProperties(_, _, _)
DoubleProperties(st, names, tbl) ==
    IF names = <<>> THEN st
    ELSE DoubleProperties(
             AddProperty(st, Head(names),
                         SubSeq(DoubleColumnBytes(tbl.dbls[Head(names)]), 1, DoubleSize * tbl.n),
                         T_FLOAT64, tbl.n),
             Tail(names), tbl)

\* lines 564-574
PrimitiveExtension ==
    JPut(JNull, K_featureIdAttributes,
         JArr(<< JObj((K_featureTable :> JStr(CDB_FEATURE_TABLE_NAME))
                      @@ (K_featureIds :> JObj(K_attribute :> JStr(K_FEATURE_ID_0)))) >>))

\* lines 576-578
AddPrimitiveExtension(gltf, i) ==
    [gltf EXCEPT !.meshes[i + 1].extensions =
        MapInsert(@, K_EXT_feature_metadata, ParseJsonAsValue(PrimitiveExtension).val)]

\* lines 451-578: the body of the mesh loop for mesh i
MeshStep(c) ==
    LET tbl == c.table[1]
        s0 == [gltf |-> ReplaceBatchId(c.gltf, c.i), data |-> c.metadataBufferData,
               ext |-> c.metadataExtension]
        s1 == IntegerProperties(s0, SortKeys(DOMAIN tbl.ints), tbl)
        s2 == DoubleProperties(s1, SortKeys(DOMAIN tbl.dbls), tbl)
    IN  [c EXCEPT !.gltf = AddPrimitiveExtension(s2.gltf, c.i),
                  !.metadataBufferData = s2.data,
                  !.metadataExtension = s2.ext,
                  !.i = @ + 1]

\* lines 581-586
FinishStep(c) ==
    [c EXCEPT !.pc = "done",
              !.gltf = [c.gltf EXCEPT
                  !.buffers = Append(@, c.metadataBufferData),
                  !.extensions = MapInsert(@, K_EXT_feature_metadata,
                                           ParseJsonAsValue(c.metadataExtension).val),
                  !.extensionsUsed = Append(@, K_EXT_feature_metadata)]]

MaxMeshes == 2
MaxSceneBuffers == 2

\* a model of numMeshes meshes, with one accessor and one buffer-view for each
\* mesh's _BATCHID, and numBuffers buffers
Scene(numMeshes, numBuffers) ==
    [ meshes      |-> [j \in 1..numMeshes |->
                          [ attributes |-> (K_POSITION :> 0) @@ (K_BATCHID :> (j - 1)),
                            extensions |-> <<>> ]],
      accessors   |-> [j \in 1..numMeshes |-> [bufferView |-> numMeshes - j]],
      buffers     |-> [b \in 1..numBuffers |-> <<b>>],
      bufferViews |-> [j \in 1..numMeshes |->
                          [buffer |-> 0, byteOffset |-> 0, byteLength |-> 1]],
      extensions  |-> <<>>,
      extensionsUsed |-> <<>> ]

\* line 401 on entry: a null table leaves the model alone
CreateFeatureMetadataClasses ==
    /\ meta.pc = "idle"
    /\ \E numMeshes \in 0..MaxMeshes, numBuffers \in 1..MaxSceneBuffers :
         \E instancesAttribs \in {<<>>} \cup {<<t>> : t \in Tables} :
            LET gltf == Scene(numMeshes, numBuffers)
            IN  meta' = [NoCreate EXCEPT
                            !.pc = IF instancesAttribs = <<>> THEN "done" ELSE "loop",
                            !.gltf = gltf,
                            !.entry = gltf,
                            !.table = instancesAttribs]
    /\ UNCHANGED <<fs, pos, stack, ncalls, last, phase, tilesetOut, io, parsed>>

\* one pass of the loop of line 450
MetadataMesh ==
    /\ meta.pc = "loop"
    /\ meta.i < Len(meta.gltf.meshes)
    /\ meta' = MeshStep(meta)
    /\ UNCHANGED <<fs, pos, stack, ncalls, last, phase, tilesetOut, io, parsed>>

\* the loop of line 450 is over: lines 581-586 and the return
MetadataFinish ==
    /\ meta.pc = "loop"
    /\ meta.i >= Len(meta.gltf.meshes)
    /\ meta' = FinishStep(meta)
    /\ UNCHANGED <<fs, pos, stack, ncalls, last, phase, tilesetOut, io, parsed>>

\* the caller goes on to the next model
MetadataDone ==
    /\ meta.pc = "done"
    /\ meta' = NoCreate
    /\ UNCHANGED <<fs, pos, stack, ncalls, last, phase, tilesetOut, io, parsed>>

NextMetadata ==
    \/ CreateFeatureMetadataClasses
    \/ MetadataMesh
    \/ MetadataFinish
    \/ MetadataDone

SpecMetadata == Init /\ [][NextMetadata]_vars

(***************************************************************************)
(* C14: with a table supplied, the model's buffers stay as they were on    *)
(* entry while the meshes are processed, and exactly one buffer, the       *)
(* metadata buffer, is appended after the last mesh; every buffer-view     *)
(* added by the call records as its buffer the number of buffers on entry, *)
(* which is the index the metadata buffer lands at.                        *)
(***************************************************************************)
InjectionRunning == meta.pc \in {"loop", "done"} /\ meta.table # <<>>
BuffersOnEntry == Len(meta.entry.buffers)
ViewsOnEntry == Len(meta.entry.bufferViews)
AddedViews == SubSeq(meta.gltf.bufferViews, ViewsOnEntry + 1, Len(meta.gltf.bufferViews))

C14_OneBufferAtReservedIndex ==
    InjectionRunning =>
        /\ meta.pc = "loop" => meta.gltf.buffers = meta.entry.buffers
        /\ meta.pc = "done" =>
              /\ Len(meta.gltf.buffers) = BuffersOnEntry + 1
              /\ SubSeq(meta.gltf.buffers, 1, BuffersOnEntry) = meta.entry.buffers
              /\ meta.gltf.buffers[BuffersOnEntry + 1] = meta.metadataBufferData
        /\ SubSeq(meta.gltf.bufferViews, 1, ViewsOnEntry) = meta.entry.bufferViews
        /\ \A k \in 1..Len(AddedViews) : AddedViews[k].buffer = BuffersOnEntry

C14_Witness ==
    /\ meta.pc = "done"
    /\ meta.table # <<>>
    /\ Len(meta.gltf.meshes) = 2
    /\ BuffersOnEntry = 2
    /\ Len(meta.gltf.buffers) = 3
    /\ Len(AddedViews) = 4
    /\ \A k \in 1..4 : AddedViews[k].buffer = 2
    /\ Len(meta.gltf.buffers[3]) = 48

(***************************************************************************)
(* C15: the call adds one buffer-view per integer column and one per       *)
(* double column, whatever the number of meshes: as many views as the      *)
(* table has integer and double columns, each of 4 or 8 bytes per          *)
(* instance, one after the other in the metadata buffer, whose length is   *)
(* the sum of theirs; each property of the feature table names the view    *)
(* that holds its column.                                                  *)
(***************************************************************************)
InjectedTable == meta.table[1]
IntegerColumns == SortKeys(DOMAIN InjectedTable.ints)
DoubleColumns == SortKeys(DOMAIN InjectedTable.dbls)
FeatureTableProperties ==
    JGet(JGet(JGet(meta.metadataExtension, K_featureTables), CDB_FEATURE_TABLE_NAME),
         K_properties)
ViewBytes(view) ==
    SubSeq(meta.metadataBufferData, view.byteOffset + 1, view.byteOffset + view.byteLength)
ColumnBytes(property) ==
    IF property \in DOMAIN InjectedTable.ints
    THEN IntColumnBytes(InjectedTable.ints[property])
    ELSE DoubleColumnBytes(InjectedTable.dbls[property])

C15_OneViewPerColumn ==
    (meta.pc = "done" /\ meta.table # <<>>) =>
        LET k == Len(IntegerColumns)
            d == Len(DoubleColumns)
            n == InjectedTable.n
        IN  /\ Len(AddedViews) = k + d
            /\ \A c \in 1..Len(AddedViews) :
                  /\ AddedViews[c].byteLength = (IF c <= k THEN Int32Size ELSE DoubleSize) * n
                  /\ AddedViews[c].byteOffset =
                        SumSeq([j \in 1..(c - 1) |-> AddedViews[j].byteLength])
            /\ Len(meta.metadataBufferData) = (Int32Size * k + DoubleSize * d) * n
            /\ \A property \in DOMAIN InjectedTable.ints \cup DOMAIN InjectedTable.dbls :
                  LET index == JGet(FeatureTableProperties.v[property], K_bufferView).v
                  IN  /\ index >= ViewsOnEntry
                      /\ index < Len(meta.gltf.bufferViews)
                      /\ ViewBytes(meta.gltf.bufferViews[index + 1]) = ColumnBytes(property)

====
